---- MODULE Spec2Model ----
(***************************************************************************)
(* Model of the floucast document-processing service: the SQS worker pool  *)
(* (QueueManager), the document processing pass of the DocumentProcessor   *)
(* the server loads (src/services/DocumentProcessor.js, "basic") and the   *)
(* relational rows it writes.  The second text of the class                *)
(* (unnamed/part_004, "enhanced") has statements at class-body level and   *)
(* cannot be loaded: its methods appear as functions only.                 *)
(***************************************************************************)
EXTENDS Integers, Sequences, FiniteSets, TLC

\* ---------------------------------------------------------------- bounds
MaxConcurrency == 2   \* largest PROCESSING_CONCURRENCY explored
MaxMsgs == 1          \* messages ever sent to the queue
MaxReceives == 2      \* ReceiveMessage calls that return a message
MaxItems == 1         \* line items in one AI answer
MaxTx == 1            \* bank transactions in one AI answer
MaxWindows == 1       \* text windows handed to the embedding model
MaxStopSleeps == 2    \* 5 s sleeps of stop() that fit under its ceiling

\* ---------------------------------------------------------------- domains
WorkerIds == 0..MaxConcurrency
MsgIds == 1..MaxMsgs
Tables == {"documents", "legal_documents"}
Verticals == {"accounting", "legal"}
\* The DocumentProcessor a running service is built with: server.js requires
\* ./services/DocumentProcessor.
Impls == {"basic"}
\* The two texts of the class whose methods the function-level checks apply.
Versions == {"enhanced", "basic"}
Orgs == {"none", "ghost", "known"}

NoJob == [msg |-> 0, vertical |-> "none", s3 |-> FALSE]
NoOut == [items |-> 0 - 1, txs |-> 0, shape |-> "ok"]
NoRes == [text |-> "none", out |-> NoOut, emb |-> <<>>]
NoMsg == [state |-> "unsent", format |-> "none", org |-> "none",
          valid |-> FALSE, vertical |-> "none", s3 |-> FALSE, rejected |-> FALSE]
NoInput == [fn |-> "none"]
NoEmit == [status |-> "none", progress |-> 0]

\* The structured data of a pass as far as the pass depends on it: the number
\* of line items and of bank transactions, and the shape of the two lists.
\* "nullEntry": an entry of line_items or bank_transactions is null.
\* "liNotArray": line_items is no array but has a positive length (a string,
\* say).  "btNotArray": the same of bank_transactions.
Shapes == {"ok", "nullEntry", "liNotArray", "btNotArray"}
Outputs ==
  { o \in [items : 0..MaxItems, txs : 0..MaxTx, shape : Shapes] :
      /\ o.shape = "nullEntry" => o.items + o.txs > 0
      /\ o.shape = "liNotArray" => (o.items = 0 /\ o.txs = 0)
      /\ o.shape = "btNotArray" => o.txs = 0 }

\* getDefaultStructuredData(): line_items [] and bank_transactions [].
DefaultOut == [items |-> 0, txs |-> 0, shape |-> "ok"]

\* Strictly increasing sequences of window indexes 0..n-1: the windows whose
\* embedding call succeeded.
RECURSIVE IncSeqs(_, _)
IncSeqs(lo, hi) ==
  IF lo > hi THEN { <<>> }
  ELSE IncSeqs(lo + 1, hi) \cup { <<lo>> \o s : s \in IncSeqs(lo + 1, hi) }

\* Surviving embeddings of a text: a subset of its windows.
Embeddings == UNION { IncSeqs(0, n - 1) : n \in 1..MaxWindows }

\* Full text of the basic processor's processCombinedSmallFile / extractFullText:
\* the answer's text (possibly ''), and when the AI call fails
\* xlsxText || 'Text extraction failed'.  xlsxText is the text xlsxToText made
\* of a spreadsheet; it is null for any other file, null when the workbook
\* could not be loaded and '' for a workbook without sheets (xlsxOk FALSE).
BasicFullText(callOk, hasText, isXlsx, xlsxOk) ==
  IF callOk THEN (IF hasText THEN "real" ELSE "empty")
  ELSE IF isXlsx /\ xlsxOk THEN "real" ELSE "placeholder"

BasicTexts ==
  { BasicFullText(c, h, x, k) : c \in BOOLEAN, h \in BOOLEAN, x \in BOOLEAN, k \in BOOLEAN }

\* The stored file as far as a pass depends on it: the full text its
\* extraction ends with, whether the structured extraction succeeds (the call
\* returns and its response holds a JSON object), the structured data it then
\* yields and the embeddings the AI service returns for the text.  The
\* answers are those of one file: they change only between passes
\* (AnswerChanges).  When the extraction fails there is no answer to speak of.
Files ==
  { f \in [text : BasicTexts, structOk : BOOLEAN, out : Outputs, emb : Embeddings] :
      /\ f.text # "real" => f.emb = <<>>
      /\ ~f.structOk => f.out = DefaultOut }

VARIABLES
  impl,            \* which DocumentProcessor the service was built with
  concurrency,     \* config.processing.concurrency
  isRunning,       \* QueueManager.isRunning
  workers,         \* QueueManager.workers (ids of the started loops)
  pc,              \* position of each worker loop
  job,             \* the message a loop is handling and its job data
  res,             \* locals of the processing pass (text, extractedData, embeddings)
  processingJobs,  \* QueueManager.processingJobs (Set of MessageIds)
  queue,           \* the SQS queue: message id -> message and delivery state
  receives,        \* number of deliveries and direct calls so far
  docs,            \* document record of the one document id, per table
  lineItems,       \* rows of document_line_items for the document
  bankTx,          \* rows of the bank transactions table for the document
  chunks,          \* rows of the chunks table for the document
  file,            \* the stored file: what the AI answers for it
  okPasses,        \* history: processDocument calls that returned
  failedPasses,    \* history: processDocument calls that threw
  changed,         \* history: the AI answer changed after a pass had run
  overlapped,      \* history: two passes were inside processDocument at once
  stopPc,          \* position of QueueManager.stop(): idle, waiting, returned
  stopWaited,      \* sleeps stop() has taken while waiting for the jobs to drain
  exitCode,        \* "running", or the code process.exit was called with
  emitted,         \* status and progress of the last status call of each loop's pass
  input,           \* argument of the function under test (function-level checks)
  output           \* its result

vars == << impl, concurrency, isRunning, workers, pc, job, res, processingJobs,
           queue, receives, docs, lineItems, bankTx, chunks, file, okPasses,
           failedPasses, changed, overlapped, stopPc, stopWaited, exitCode, emitted,
           input, output >>

qmVars == << isRunning, workers, processingJobs >>
dbRows == << lineItems, bankTx, chunks >>
cfgVars == << impl, concurrency >>
histVars == << okPasses, failedPasses, changed, overlapped >>
stopVars == << stopPc, stopWaited, exitCode >>
fnVars == << input, output >>

\* ---------------------------------------------------------------- helpers
\* A processor that writes every record to the documents table.
TableOfDocuments(v) == "documents"

\* const tableName = vertical === 'legal' ? 'legal_documents' : 'documents'
TableOf(v) == IF v = "legal" THEN "legal_documents" ELSE "documents"

\* A document record: its processing_status, and whether it carries an error
\* text (ai_extraction_error), a processing time and extracted data
\* (ai_extracted_data).
AbsentDoc == [status |-> "absent", err |-> FALSE, time |-> FALSE, data |-> FALSE]
PendingDoc == [status |-> "pending", err |-> FALSE, time |-> FALSE, data |-> FALSE]

PassPcs == { "emit10", "download", "content", "embed", "emit90", "update",
             "liInsert", "btInsert", "emit100", "handleError" }

InPass(w) == pc[w] \in PassPcs

\* ---------------------------------------------------------------- S3 keys
\* A storage key is a sequence of path parts; a part is a recognised folder
\* name (documents, legal-docs, test-uploads), a UUID, or any other name.
KeyParts == {"dir", "uuid", "name"}
MaxKeyLen == 3
Keys == UNION { [1..n -> KeyParts] : n \in 1..MaxKeyLen }

RECURSIVE FirstUuidAfterDir(_, _)
FirstUuidAfterDir(key, i) ==
  IF i > Len(key) - 1 THEN 0
  ELSE IF key[i] = "dir" /\ key[i + 1] = "uuid" THEN i + 1
  ELSE FirstUuidAfterDir(key, i + 1)

RECURSIVE FirstUuid(_, _)
FirstUuid(key, i) ==
  IF i > Len(key) THEN 0
  ELSE IF key[i] = "uuid" THEN i
  ELSE FirstUuid(key, i + 1)

\* Index of the part returned as organization id, 0 for null.
ExtractOrganizationFromS3Key(key) ==
  IF FirstUuidAfterDir(key, 1) # 0 THEN FirstUuidAfterDir(key, 1)
  ELSE FirstUuid(key, 1)

\* organizationId of an S3-event message: the attribute, else the key's UUID
\* (keyOrg says which tenant that UUID denotes).
S3Organization(attrOrg, key, keyOrg) ==
  IF attrOrg # "none" THEN attrOrg
  ELSE IF ExtractOrganizationFromS3Key(key) # 0 THEN keyOrg
  ELSE "none"

\* ---------------------------------------------------------------- AI responses
\* The text of an AI response is a sequence of characters of a small alphabet:
\* "FT" the marker === FULL TEXT ===, "SD" the marker === STRUCTURED DATA ===,
\* "\\" a backslash, "s" the letter s, "n" a line break, "x" any other
\* character, "{" and "}" the braces, and "d" a JSON member that makes the
\* extracted data adequate (a description, say).
Chars == {"FT", "SD", "\\", "s", "n", "x", "{", "}", "d"}
MaxRespLen == 3
\* A combined response in the format the prompt asks for, with and without a
\* Markdown fence around the JSON, and one with prose instead of the JSON.
CombinedAnswer == << "FT", "n", "x", "n", "SD", "n", "{", "d", "}" >>
CombinedFenced == << "FT", "n", "x", "n", "SD", "n", "x", "{", "d", "}", "x" >>
CombinedProse == << "FT", "n", "x", "n", "SD", "n", "x", "x" >>
\* Responses in which the markers and braces are preceded by backslashes.
EscapedAnswer == << "FT", "\\", "s", "\\", "\\", "SD", "\\", "s", "\\" >>
EscapedJson == << "\\", "{", "s", "\\", "}" >>
Responses ==
  UNION { [1..n -> Chars] : n \in 0..MaxRespLen }
    \cup { CombinedAnswer, CombinedFenced, CombinedProse, EscapedAnswer, EscapedJson }

Least(S) == CHOOSE i \in S : \A k \in S : i <= k
Greatest(S) == CHOOSE i \in S : \A k \in S : k <= i
Rest(t, i) == SubSeq(t, i, Len(t))
IsSpace(c) == c = "n"
NotSpace(c) == c # "n"
\* String.prototype.trim leaves '' exactly when every character is white space.
TrimIsEmpty(t) == \A i \in 1..Len(t) : IsSpace(t[i])

\* JSON.parse of a text: a SyntaxError, or the object {} or the object with
\* the member d; white space between the tokens is ignored.
JsonParse(t) ==
  LET tokens == SelectSeq(t, NotSpace)
  IN IF tokens = << "{", "}" >> THEN "empty"
     ELSE IF tokens = << "{", "d", "}" >> THEN "adequate"
     ELSE "throw"

\* text.match(/\{[\s\S]*\}/): from the first opening brace to the last closing
\* brace after it; << >> stands for null.
BraceMatch(t) ==
  LET opens == { i \in 1..Len(t) : t[i] = "{" /\ \E j \in (i + 1)..Len(t) : t[j] = "}" }
  IN IF opens = {} THEN << >>
     ELSE SubSeq(t, Least(opens), Greatest({ j \in 1..Len(t) : t[j] = "}" }))

\* A character of the class [\\s\\S] of the enhanced processor's patterns: a
\* backslash, an s or an S.
InEscapedClass(c) == c \in {"\\", "s"}

\* Ends j of a match of \\{[\\s\\S]*\\} that starts at i: a backslash and an
\* opening brace, characters of the class, a backslash and a closing brace.
EscapedBraceEnds(t, i) ==
  { j \in (i + 3)..Len(t) :
      /\ t[i] = "\\" /\ t[i + 1] = "{"
      /\ t[j - 1] = "\\" /\ t[j] = "}"
      /\ \A k \in (i + 2)..(j - 2) : InEscapedClass(t[k]) }

\* text.match(/\\{[\\s\\S]*\\}/): leftmost start, longest run; << >> for null.
EscapedBraceMatch(t) ==
  LET starts == { i \in 1..Len(t) : EscapedBraceEnds(t, i) # {} }
  IN IF starts = {} THEN << >>
     ELSE SubSeq(t, Least(starts), Greatest(EscapedBraceEnds(t, Least(starts))))

\* Enhanced extractStructuredData after the AI call returned: the response is
\* blocked or empty, or its text t is searched for a JSON object and parsed;
\* every way out but a parsed object is an exception.
ExtractStructuredDataResult(blocked, t) ==
  IF blocked THEN "throw"
  ELSE IF EscapedBraceMatch(t) # << >> THEN JsonParse(EscapedBraceMatch(t))
  ELSE "throw"

\* Basic extractStructuredData: the AI call fails, or its text is searched and
\* parsed; every failure is caught and getDefaultStructuredData() returned.
BasicExtractStructuredData(callOk, t) ==
  IF ~callOk THEN "default"
  ELSE IF BraceMatch(t) = << >> THEN "default"
  ELSE IF JsonParse(BraceMatch(t)) = "throw" THEN "default"
  ELSE JsonParse(BraceMatch(t))

\* Positions <<a, p, q>> at which
\* /=== FULL TEXT ===\\s*([\\s\\S]*?)\\s*=== STRUCTURED DATA ===/ matches: the
\* marker at a, a backslash, a run of s up to p - 1, the group p..q - 1 of
\* class characters, a backslash at q, a run of s, the second marker.
FullTextMatches(t) ==
  { m \in (1..Len(t)) \X (1..(Len(t) + 1)) \X (1..Len(t)) :
      /\ m[1] + 2 <= m[2] /\ m[2] <= m[3]
      /\ t[m[1]] = "FT" /\ t[m[1] + 1] = "\\"
      /\ \A i \in (m[1] + 2)..(m[2] - 1) : t[i] = "s"
      /\ \A i \in m[2]..(m[3] - 1) : InEscapedClass(t[i])
      /\ t[m[3]] = "\\"
      /\ \E j \in (m[3] + 1)..Len(t) :
           t[j] = "SD" /\ \A i \in (m[3] + 1)..(j - 1) : t[i] = "s" }

\* The group of the first match a backtracking search finds: leftmost marker,
\* longest first run of s, shortest group; << >> when there is no match or
\* the group is ''.
CombinedFullText(t) ==
  LET ms == FullTextMatches(t)
      a == Least({ m[1] : m \in ms })
      p == Greatest({ m[2] : m \in { x \in ms : x[1] = a } })
      q == Least({ m[3] : m \in { x \in ms : x[1] = a /\ x[2] = p } })
  IN IF ms = {} THEN << >> ELSE SubSeq(t, p, q - 1)

\* The group of /=== STRUCTURED DATA ===\\s*([\\s\\S]*?)$/: the marker, a
\* backslash, the longest run of s, then class characters up to the end.
CombinedDataText(t) ==
  LET starts == { a \in 1..(Len(t) - 1) :
                    /\ t[a] = "SD" /\ t[a + 1] = "\\"
                    /\ \A i \in (a + 2)..Len(t) : InEscapedClass(t[i]) }
      a == Least(starts)
      p == Least({ i \in (a + 2)..(Len(t) + 1) :
                     /\ \A k \in (a + 2)..(i - 1) : t[k] = "s"
                     /\ (i = Len(t) + 1 \/ t[i] # "s") })
  IN IF starts = {} THEN << >> ELSE SubSeq(t, p, Len(t))

\* performCombinedAIExtraction after the AI call returned: it throws on a
\* blocked or empty response; else fullText is the trimmed group when that is
\* not '', and extractedData is the parsed JSON of the second group when it
\* passes the quality check ("sparse": parsed, then set to null).
PerformCombinedAIExtraction(blocked, t) ==
  LET ft == CombinedFullText(t)
      dt == CombinedDataText(t)
      parsed == IF dt # << >> /\ EscapedBraceMatch(dt) # << >>
                THEN JsonParse(EscapedBraceMatch(dt)) ELSE "throw"
  IN IF blocked THEN [threw |-> TRUE, text |-> FALSE, data |-> "none"]
     ELSE [threw |-> FALSE,
           text |-> (ft # << >> /\ ~TrimIsEmpty(ft)),
           data |-> IF parsed = "adequate" THEN "ok"
                    ELSE IF parsed = "empty" THEN "sparse" ELSE "none"]

\* Basic processCombinedSmallFile, /=== FULL TEXT ===\n(.*?)\n=== STRUCTURED DATA ===/s:
\* ends q of the group that starts after the first marker-and-line-break at a.
BasicFullTextEnds(t, a) ==
  { q \in (a + 2)..(Len(t) - 1) :
      t[a] = "FT" /\ t[a + 1] = "n" /\ t[q] = "n" /\ t[q + 1] = "SD" }

\* Whether fullText, the trimmed group or '' without a match, is not ''.
BasicCombinedHasText(t) ==
  LET starts == { a \in 1..Len(t) : BasicFullTextEnds(t, a) # {} }
      a == Least(starts)
  IN /\ starts # {}
     /\ ~TrimIsEmpty(SubSeq(t, a + 2, Least(BasicFullTextEnds(t, a)) - 1))

\* Basic processCombinedSmallFile, /=== STRUCTURED DATA ===\n(.*?)$/s and the
\* JSON inside its group: the parsed object, or the default record.
BasicCombinedData(callOk, t) ==
  LET starts == { a \in 1..(Len(t) - 1) : t[a] = "SD" /\ t[a + 1] = "n" }
  IN IF ~callOk \/ starts = {} THEN "default"
     ELSE BasicExtractStructuredData(TRUE, Rest(t, Least(starts) + 2))

\* ---------------------------------------------------------------- Init
Init ==
  /\ impl \in Impls
  /\ concurrency \in 1..MaxConcurrency
  /\ isRunning = FALSE
  /\ workers = {}
  /\ pc = [w \in WorkerIds |-> "off"]
  /\ job = [w \in WorkerIds |-> NoJob]
  /\ res = [w \in WorkerIds |-> NoRes]
  /\ emitted = [w \in WorkerIds |-> NoEmit]
  /\ processingJobs = {}
  /\ queue = [m \in MsgIds |-> NoMsg]
  /\ receives = 0
  /\ docs \in { [t \in Tables |-> AbsentDoc] }
              \cup { [t \in Tables |-> IF t = u THEN PendingDoc ELSE AbsentDoc] : u \in Tables }
  /\ lineItems = <<>>
  /\ bankTx = <<>>
  /\ chunks = <<>>
  /\ file \in Files
  /\ okPasses = 0
  /\ failedPasses = 0
  /\ changed = FALSE
  /\ overlapped = FALSE
  /\ stopPc = "idle"
  /\ stopWaited = 0
  /\ exitCode = "running"
  /\ input = NoInput
  /\ output = NoInput

\* ---------------------------------------------------------------- the queue
\* organizationId values the S3-event branch can arrive at.
S3Organizations ==
  { S3Organization(attrOrg, key, keyOrg) :
      attrOrg \in Orgs, key \in Keys, keyOrg \in {"ghost", "known"} }

\* A producer puts an S3 event notification on the queue.
SendS3Event(m) ==
  /\ receives < MaxReceives
  /\ queue[m].state = "unsent"
  /\ \A k \in MsgIds : k < m => queue[k].state # "unsent"
  /\ \E org \in S3Organizations, v \in Verticals :
       queue' = [queue EXCEPT ![m] =
                   [state |-> "visible", format |-> "s3", org |-> org,
                    valid |-> TRUE, vertical |-> v, s3 |-> TRUE, rejected |-> FALSE]]
  /\ UNCHANGED << cfgVars, stopVars, fnVars, qmVars, pc, job, res, emitted, receives, docs, dbRows, file, histVars >>

\* A producer puts a legacy job message on the queue; hasIds says whether the
\* body carries both documentId and vertical, hasLocation whether it carries
\* bucketName and s3Key (the body is handed to processDocument whole; a body
\* without the ids never gets that far, so its location is left out).
SendLegacyJob(m) ==
  /\ receives < MaxReceives
  /\ queue[m].state = "unsent"
  /\ \A k \in MsgIds : k < m => queue[k].state # "unsent"
  /\ \E org \in Orgs, hasIds \in BOOLEAN, hasLocation \in BOOLEAN, v \in Verticals :
       /\ hasLocation => hasIds
       /\ queue' = [queue EXCEPT ![m] =
                   [state |-> "visible", format |-> "legacy", org |-> org,
                    valid |-> hasIds, vertical |-> v, s3 |-> hasLocation,
                    rejected |-> FALSE]]
  /\ UNCHANGED << cfgVars, stopVars, fnVars, qmVars, pc, job, res, emitted, receives, docs, dbRows, file, histVars >>

\* The visibility timeout of an in-flight message runs out.
VisibilityTimeout(m) ==
  /\ receives < MaxReceives
  /\ queue[m].state = "inflight"
  /\ queue' = [queue EXCEPT ![m].state = "visible"]
  /\ UNCHANGED << cfgVars, stopVars, fnVars, qmVars, pc, job, res, emitted, receives, docs, dbRows, file, histVars >>

\* ---------------------------------------------------------------- QueueManager
\* A start() whose loop ran once too often: i <= concurrency.
StartedWorkersInclusive(n) == 0..n

\* Ids of the loops start() spawns: for (i = 0; i < concurrency; i++).
StartedWorkers(n) == 0..(n - 1)

Start ==
  /\ ~isRunning
  /\ stopPc = "idle"
  /\ isRunning' = TRUE
  /\ workers' = StartedWorkers(concurrency)
  /\ pc' = [w \in WorkerIds |-> IF w \in StartedWorkers(concurrency) THEN "poll" ELSE pc[w]]
  /\ UNCHANGED << cfgVars, stopVars, fnVars, job, res, emitted, processingJobs, queue, receives, docs, dbRows,
                  file, histVars >>

\* The loop issues a receive only at the top of its while body, after the
\* awaited processMessage of the previous message has settled.
LoopReady(w) == pc[w] = "poll"

\* A loop that never looks at the running flag.
LoopConditionAlways == TRUE

\* while (this.isRunning && worker.isRunning).  stop() sets isRunning on the
\* entries of this.workers, which are the promises startWorker returned, so
\* the worker objects keep isRunning true and this.isRunning decides.
LoopCondition == isRunning

\* pollQueue: the while condition holds and the loop sends ReceiveMessage.
IssueReceive(w) ==
  /\ w \in workers
  /\ LoopReady(w)
  /\ LoopCondition
  /\ pc' = [pc EXCEPT ![w] = "receiving"]
  /\ UNCHANGED << cfgVars, stopVars, fnVars, qmVars, job, res, emitted, queue, receives, docs, dbRows,
                  file, histVars >>

\* pollQueue: the while condition fails and the loop ends ('Worker stopped').
LoopExit(w) ==
  /\ w \in workers
  /\ LoopReady(w)
  /\ ~LoopCondition
  /\ pc' = [pc EXCEPT ![w] = "stopped"]
  /\ UNCHANGED << cfgVars, stopVars, fnVars, qmVars, job, res, emitted, queue, receives, docs, dbRows,
                  file, histVars >>

\* pollQueue: the long poll returned no message.
ReceiveEmpty(w) ==
  /\ pc[w] = "receiving"
  /\ pc' = [pc EXCEPT ![w] = "poll"]
  /\ UNCHANGED << cfgVars, stopVars, fnVars, qmVars, job, res, emitted, queue, receives, docs, dbRows,
                  file, histVars >>

\* pollQueue: ReceiveMessage failed; the loop sleeps 30 s before retrying.
PollError(w) ==
  /\ pc[w] = "receiving"
  /\ pc' = [pc EXCEPT ![w] = "sleeping"]
  /\ UNCHANGED << cfgVars, stopVars, fnVars, qmVars, job, res, emitted, queue, receives, docs, dbRows,
                  file, histVars >>

\* pollQueue: the sleep after a poll error is over; back to the while condition.
WakeUp(w) ==
  /\ pc[w] = "sleeping"
  /\ pc' = [pc EXCEPT ![w] = "poll"]
  /\ UNCHANGED << cfgVars, stopVars, fnVars, qmVars, job, res, emitted, queue, receives, docs, dbRows,
                  file, histVars >>

\* pollQueue: ReceiveMessage returned message m.
Receive(w, m) ==
  /\ pc[w] = "receiving"
  /\ receives < MaxReceives
  /\ queue[m].state = "visible"
  /\ queue' = [queue EXCEPT ![m].state = "inflight"]
  /\ receives' = receives + 1
  /\ pc' = [pc EXCEPT ![w] = "received"]
  /\ job' = [job EXCEPT ![w] = [msg |-> m, vertical |-> queue[m].vertical,
                                s3 |-> queue[m].s3]]
  /\ UNCHANGED << cfgVars, stopVars, fnVars, qmVars, res, emitted, docs, dbRows, file, histVars >>

\* DeleteMessageCommand for message m, answered by the queue.
DeleteMessage(m) == queue' = [queue EXCEPT ![m].state = "deleted"]

\* A catch block that acknowledged the failed delivery.
CatchDeletes(m) == queue' = [queue EXCEPT ![m].state = "deleted"]

\* What the catch block of processMessage does to the queue: nothing.
CatchEffect(m) == queue' = queue

\* await this.sqs.send(deleteCommand) inside the try of processMessage: the
\* queue deletes the message, or the request is rejected and the catch block
\* logs it (the message then records that a delete of it was rejected).
SendDelete(m, answered) ==
  IF answered THEN DeleteMessage(m)
  ELSE queue' = [queue EXCEPT ![m].rejected = TRUE]

\* Back to the top of the poll loop, with finally's processingJobs.delete(jobId).
ReturnToPoll(w) ==
  /\ pc' = [pc EXCEPT ![w] = "poll"]
  /\ job' = [job EXCEPT ![w] = NoJob]
  /\ res' = [res EXCEPT ![w] = NoRes]
  /\ emitted' = [emitted EXCEPT ![w] = NoEmit]
  /\ processingJobs' = processingJobs \ { job[w].msg }

\* The legacy branch throws before any tenant check when the body lacks
\* documentId or vertical.
InvalidJobData(msg) == msg.format = "legacy" /\ ~msg.valid

\* if (!organizationId)
OrganizationMissing(msg) == msg.org = "none"

\* processMessage up to its first await: parse the body, find the ids.
ParseMessage(w) ==
  /\ pc[w] = "received"
  /\ LET m == job[w].msg
         msg == queue[m]
     IN IF InvalidJobData(msg)
        THEN /\ CatchEffect(m)
             /\ ReturnToPoll(w)
        ELSE IF OrganizationMissing(msg)
        THEN /\ \E answered \in BOOLEAN : SendDelete(m, answered)
             /\ ReturnToPoll(w)
        ELSE /\ pc' = [pc EXCEPT ![w] = "validateOrg"]
             /\ UNCHANGED << job, res, emitted, processingJobs, queue >>
  /\ UNCHANGED << cfgVars, stopVars, fnVars, isRunning, workers, receives, docs, dbRows, file, histVars >>

\* if (error || !organization)
OrganizationRejected(org, lookupError) == lookupError \/ org # "known"

\* processDocument begins with updateStatus(documentId, vertical, 'processing', 10).
FirstPassPc == "emit10"

\* The organizations lookup returned; on success the job id joins
\* processingJobs and processDocument is called.
ValidateOrganization(w) ==
  /\ pc[w] = "validateOrg"
  /\ LET m == job[w].msg
     IN \E lookupError \in BOOLEAN :
          IF OrganizationRejected(queue[m].org, lookupError)
          THEN /\ \E answered \in BOOLEAN : SendDelete(m, answered)
               /\ ReturnToPoll(w)
               /\ UNCHANGED overlapped
          ELSE /\ pc' = [pc EXCEPT ![w] = FirstPassPc]
               /\ processingJobs' = processingJobs \cup { m }
               /\ overlapped' = (overlapped \/ \E x \in WorkerIds : x # w /\ InPass(x))
               /\ UNCHANGED << job, res, emitted, queue >>
  /\ UNCHANGED << cfgVars, stopVars, fnVars, isRunning, workers, receives, docs, dbRows, file, okPasses, failedPasses, changed >>

\* processMessage resumes in the same turn in which processDocument settles.
\* When it resolved, processingJobs.delete(jobId) runs before the
\* DeleteMessageCommand is sent and awaited; when it rejected, the catch block
\* and finally's processingJobs.delete(jobId) run without an await.
PassReturned(w) == processingJobs' = processingJobs \ { job[w].msg }

\* The DeleteMessageCommand sent after a successful pass is answered or
\* rejected; then finally runs and the loop goes on.
Acknowledge(w) ==
  /\ pc[w] = "ack"
  /\ w \in workers
  /\ \E answered \in BOOLEAN : SendDelete(job[w].msg, answered)
  /\ ReturnToPoll(w)
  /\ UNCHANGED << cfgVars, stopVars, fnVars, isRunning, workers, receives, docs, dbRows, file, histVars >>

\* processDocument threw: the catch block has logged and finally has cleaned
\* up; processMessage returns to the loop.
ProcessingFailed(w) ==
  /\ pc[w] = "threw"
  /\ w \in workers
  /\ CatchEffect(job[w].msg)
  /\ ReturnToPoll(w)
  /\ UNCHANGED << cfgVars, stopVars, fnVars, isRunning, workers, receives, docs, dbRows, file, histVars >>

\* ---------------------------------------------------------------- direct calls
\* Callers of the processor outside the worker loops use the ids the loops
\* leave free.
DirectCallers == WorkerIds \ StartedWorkers(concurrency)

\* QueueManager.processJob(jobData) and the POST /process handler of
\* server.js: processDocument is called with the job data as given (with or
\* without bucketName and s3Key), processingJobs is not touched.
ProcessJob(w) ==
  /\ w \in DirectCallers
  /\ pc[w] = "off"
  /\ receives < MaxReceives
  /\ receives' = receives + 1
  /\ \E v \in Verticals, hasLocation \in BOOLEAN :
       job' = [job EXCEPT ![w] = [msg |-> 0, vertical |-> v, s3 |-> hasLocation]]
  /\ pc' = [pc EXCEPT ![w] = FirstPassPc]
  /\ overlapped' = (overlapped \/ \E x \in WorkerIds : x # w /\ InPass(x))
  /\ UNCHANGED << cfgVars, stopVars, fnVars, qmVars, res, emitted, queue, docs, dbRows, file,
                  okPasses, failedPasses, changed >>

\* The direct call has returned or thrown to its caller.
DirectCallSettled(w) ==
  /\ w \in DirectCallers
  /\ pc[w] \in {"ack", "threw"}
  /\ pc' = [pc EXCEPT ![w] = "off"]
  /\ job' = [job EXCEPT ![w] = NoJob]
  /\ res' = [res EXCEPT ![w] = NoRes]
  /\ emitted' = [emitted EXCEPT ![w] = NoEmit]
  /\ UNCHANGED << cfgVars, stopVars, fnVars, qmVars, queue, receives, docs, dbRows, file, histVars >>

\* A wait that gives up one sleep before the ceiling.
StopWaitConditionShort(jobs, waited) == jobs # {} /\ waited < MaxStopSleeps - 1

\* ---------------------------------------------------------------- stop
\* while (processingJobs.size > 0 && Date.now() - startTime < maxWaitTime):
\* the ceiling is reached after MaxStopSleeps sleeps of 5 s.
StopWaitCondition(jobs, waited) == jobs # {} /\ waited < MaxStopSleeps

\* stop(): isRunning = false, then the wait for the in-flight jobs begins.
StopBegin ==
  /\ isRunning
  /\ stopPc = "idle"
  /\ isRunning' = FALSE
  /\ stopPc' = "waiting"
  /\ stopWaited' = 0
  /\ UNCHANGED << cfgVars, fnVars, exitCode, workers, processingJobs, pc, job, res, emitted, queue, receives,
                  docs, dbRows, file, histVars >>

\* stop(): one evaluation of the while condition; it sleeps 5 s or returns.
StopPoll ==
  /\ stopPc = "waiting"
  /\ IF StopWaitCondition(processingJobs, stopWaited)
     THEN /\ stopWaited' = stopWaited + 1
          /\ UNCHANGED stopPc
     ELSE /\ stopPc' = "returned"
          /\ UNCHANGED stopWaited
  /\ UNCHANGED << cfgVars, fnVars, exitCode, qmVars, pc, job, res, emitted, queue, receives, docs, dbRows,
                  file, histVars >>

\* ---------------------------------------------------------------- metrics
\* startWorker is an async function, so what start() pushes into this.workers
\* is the promise it returned, not the worker object.  A promise has no
\* isRunning property until stop() assigns false to it.
WorkerEntryIsRunning(w) == IF stopPc = "idle" THEN "undefined" ELSE "false"

\* getMetrics(): activeJobs is processingJobs.size, workerCount the number of
\* entries of this.workers whose isRunning is truthy, totalWorkers their number.
GetMetrics ==
  [activeJobs |-> Cardinality(processingJobs),
   workerCount |-> Cardinality({ w \in workers : WorkerEntryIsRunning(w) = "true" }),
   totalWorkers |-> Cardinality(workers)]

\* ---------------------------------------------------------------- rows
BankRows(o) == [i \in 1..o.txs |-> [sort_order |-> i, item |-> "transaction"]]

\* saveDocumentChunks numbers the surviving embeddings by their position.
ChunkRows(emb) == [i \in 1..Len(emb) |-> [chunk_index |-> i - 1, window |-> emb[i]]]

\* ---------------------------------------------------------------- status calls

\* A pass whose checkpoint after processFileContent reports less than the one
\* after the download.
CheckpointExtractedLow(step) ==
  CASE step = "claimed" -> 10 [] step = "downloaded" -> 20 [] step = "extracted" -> 15
    [] step = "embedded" -> 90 [] step = "complete" -> 100 [] OTHER -> 0

\* The progress argument of the status call at each checkpoint of
\* processDocument: 10, 20 after the download, 80 after processFileContent,
\* 90 after the embeddings, 100 with complete, 0 with failed.
Checkpoint(step) ==
  CASE step = "claimed" -> 10 [] step = "downloaded" -> 20 [] step = "extracted" -> 80
    [] step = "embedded" -> 90 [] step = "complete" -> 100 [] OTHER -> 0

\* The arguments of a status call, as the pass of loop w made it.
Emit(w, status, progress) ==
  emitted' = [emitted EXCEPT ![w] = [status |-> status, progress |-> progress]]

Throw(w) == pc' = [pc EXCEPT ![w] = "handleError"]

FileKinds == {"pdf", "xlsx"}
SMALL_DOC_THRESHOLD == 512000
MEDIUM_DOC_THRESHOLD == 2097152
\* FAST, STANDARD or COMPREHENSIVE strategy of a file of so many bytes.
SizeClass(bytes) ==
  IF bytes < SMALL_DOC_THRESHOLD THEN "small"
  ELSE IF bytes < MEDIUM_DOC_THRESHOLD THEN "standard"
  ELSE "large"
\* File sizes in bytes: 100 KiB, the basic threshold, a size between the two
\* thresholds, 500 KiB, 1 MiB, 2 MiB and 8 MiB.
FileSizes == {102400, 500000, 505000, 512000, 1048576, 2097152, 8388608}
\* extractFullText: it throws, returns null (blocked), '' or a text.
FullTextResults == {"throw", "null", "empty", "real"}

\* The text part of processFileContentEnhanced, up to the critical check, and
\* the AI extraction calls the function issues: the combined call for a small
\* non-spreadsheet file, the full-text call when there is no text yet, the
\* structured call unless the text is missing or the combined call delivered
\* the data.
TextPhase(kind, size, xlsxOk, comb, ft) ==
  LET isXlsx == kind = "xlsx"
      isSmall == size = "small"
      combined == isSmall /\ ~isXlsx /\ ~comb.threw
      text0 == IF isXlsx /\ xlsxOk THEN "real" ELSE "none"
      text1 == IF combined /\ comb.text THEN "real" ELSE text0
      skip == combined /\ comb.data = "ok"
      callFt == text1 # "real" /\ ~isXlsx
      text2 == IF callFt THEN ft ELSE text1
  IN [threw |-> text2 # "real", text |-> text2, skip |-> skip, small |-> isSmall,
      xlsx |-> isXlsx,
      calls |-> (IF isSmall /\ ~isXlsx THEN << "combined" >> ELSE << >>)
                  \o (IF callFt THEN << "fullText" >> ELSE << >>)
                  \o (IF text2 = "real" /\ ~skip THEN << "structured" >> ELSE << >>)]

\* ---------------------------------------------------------------- basic pass
\* updateStatus writes processing_status, and ai_extraction_error when an error
\* text is passed, to the table of the job's vertical.
UpdateStatus(v, status, hasError) ==
  LET t == TableOf(v)
  IN IF docs[t].status = "absent" THEN docs
     ELSE [docs EXCEPT ![t] = [docs[t] EXCEPT !.status = status,
                                 !.err = (docs[t].err \/ hasError)]]

\* updateStatus(documentId, vertical, 'processing', 10)
StatusClaimed(w) ==
  /\ impl = "basic"
  /\ pc[w] = "emit10"
  /\ docs' = UpdateStatus(job[w].vertical, "processing", FALSE)
  /\ Emit(w, "processing", Checkpoint("claimed"))
  /\ pc' = [pc EXCEPT ![w] = "download"]
  /\ UNCHANGED << cfgVars, stopVars, fnVars, qmVars, job, res, queue, receives, dbRows, file, histVars >>

\* downloadDocument (throws when the record or the file is missing), then
\* updateStatus(documentId, vertical, 'processing', 20).
DownloadDocument(w) ==
  /\ impl = "basic"
  /\ pc[w] = "download"
  /\ \E ok \in BOOLEAN :
       IF ok /\ docs[TableOf(job[w].vertical)].status # "absent"
       THEN /\ docs' = UpdateStatus(job[w].vertical, "processing", FALSE)
            /\ Emit(w, "processing", Checkpoint("downloaded"))
            /\ pc' = [pc EXCEPT ![w] = "content"]
       ELSE /\ Throw(w)
            /\ UNCHANGED << docs, emitted >>
  /\ UNCHANGED << cfgVars, stopVars, fnVars, qmVars, job, res, queue, receives, dbRows, file, histVars >>

\* isSmallFile of the basic processFileContent.
BasicSmallFileLimit == 500000
BasicIsSmallFile(bytes) == bytes <= BasicSmallFileLimit

\* AI extraction calls of the basic processFileContent: the combined call for
\* a small file, else the full-text and the structured call, whatever the
\* kind of the file.
BasicExtractionCalls(kind, bytes) ==
  IF BasicIsSmallFile(bytes) THEN << "combined" >> ELSE << "fullText", "structured" >>

\* A structured extraction that lets the failure of its AI call or of the
\* parsing of the response escape.
BasicStructuredDataRethrows(ok, o) ==
  [threw |-> ~ok, out |-> IF ok THEN o ELSE DefaultOut]

\* The structured data processFileContent ends with: extractStructuredData
\* and processCombinedSmallFile catch the failure of the AI call and of
\* JSON.parse and substitute getDefaultStructuredData(); a response without a
\* JSON object yields the default record as well.
BasicStructuredData(ok, o) ==
  [threw |-> FALSE, out |-> IF ok THEN o ELSE DefaultOut]

\* processExtractedData maps the entries of line_items and bank_transactions
\* when these are arrays; reading item.quantity or transaction.amount of a
\* null entry throws a TypeError, which no try of processFileContent catches.
ProcessExtractedData(o) == [threw |-> o.shape = "nullEntry", out |-> o]

\* processFileContent, then updateStatus(documentId, vertical, 'processing', 80).
ProcessFileContent(w) ==
  /\ impl = "basic"
  /\ pc[w] = "content"
  /\ LET s == BasicStructuredData(file.structOk, file.out)
         d == IF s.threw THEN s ELSE ProcessExtractedData(s.out)
     IN IF d.threw
        THEN /\ Throw(w)
             /\ UNCHANGED << res, docs, emitted >>
        ELSE /\ res' = [res EXCEPT ![w] = [text |-> file.text, out |-> d.out, emb |-> <<>>]]
             /\ docs' = UpdateStatus(job[w].vertical, "processing", FALSE)
             /\ Emit(w, "processing", Checkpoint("extracted"))
             /\ pc' = [pc EXCEPT ![w] = "embed"]
  /\ UNCHANGED << cfgVars, stopVars, fnVars, qmVars, job, queue, receives, dbRows, file, histVars >>

\* generateEmbeddings keeps the window index of each surviving embedding.
BasicChunkRows(emb) == [i \in 1..Len(emb) |-> [chunk_index |-> emb[i], window |-> emb[i]]]

\* generateEmbeddings: skipped without a text of 50 characters; the surviving
\* embeddings are inserted, nothing is deleted.
GenerateEmbeddings(w) ==
  /\ impl = "basic"
  /\ pc[w] = "embed"
  /\ res' = [res EXCEPT ![w].emb = file.emb]
  /\ chunks' = chunks \o BasicChunkRows(file.emb)
  /\ pc' = [pc EXCEPT ![w] = "emit90"]
  /\ UNCHANGED << cfgVars, stopVars, fnVars, qmVars, job, emitted, queue, receives, docs, lineItems, bankTx,
                  file, histVars >>

\* updateStatus(documentId, vertical, 'processing', 90)
StatusEmbedded(w) ==
  /\ impl = "basic"
  /\ pc[w] = "emit90"
  /\ docs' = UpdateStatus(job[w].vertical, "processing", FALSE)
  /\ Emit(w, "processing", Checkpoint("embedded"))
  /\ pc' = [pc EXCEPT ![w] = "update"]
  /\ UNCHANGED << cfgVars, stopVars, fnVars, qmVars, job, res, queue, receives, dbRows, file, histVars >>

\* saveProcessingResults after the line items: bank_transactions.map throws
\* when bank_transactions has a positive length and is no array (the catch
\* rethrows); else the insert of the bank transactions if there are any.
BasicNextAfterLineItems(o) ==
  IF o.shape = "btNotArray" THEN "handleError"
  ELSE IF o.txs > 0 THEN "btInsert" ELSE "emit100"

\* A pass that goes from the update of the record straight to the final
\* status call.
BasicNextAfterUpdateEarly(o) == "emit100"

\* saveProcessingResults after the update: line_items.map throws when
\* line_items has a positive length and is no array (the catch rethrows);
\* else it inserts the line items if there are any, then the bank
\* transactions if there are any; the final status call follows.
BasicNextAfterUpdate(o) ==
  IF o.shape = "liNotArray" THEN "handleError"
  ELSE IF o.items > 0 THEN "liInsert" ELSE BasicNextAfterLineItems(o)

\* The update of saveProcessingResults: ai_extracted_data, processing_strategy
\* and processed_at of the record in the table of the job's vertical; no
\* status is in it.
UpdateResults(v) ==
  LET t == TableOf(v)
  IN IF docs[t].status = "absent" THEN docs
     ELSE [docs EXCEPT ![t] = [docs[t] EXCEPT !.data = TRUE]]

\* saveProcessingResults, the update of the document record.
SaveProcessingResults(w) ==
  /\ impl = "basic"
  /\ pc[w] = "update"
  /\ docs' = UpdateResults(job[w].vertical)
  /\ pc' = [pc EXCEPT ![w] = BasicNextAfterUpdate(res[w].out)]
  /\ UNCHANGED << cfgVars, stopVars, fnVars, qmVars, job, res, emitted, queue, receives, dbRows, file, histVars >>

BasicLineItemRows(o) == [i \in 1..o.items |-> [sort_order |-> i - 1, item |-> "extracted"]]

\* saveProcessingResults, the insert into document_line_items.
SaveLineItemRows(w) ==
  /\ impl = "basic"
  /\ pc[w] = "liInsert"
  /\ lineItems' = lineItems \o BasicLineItemRows(res[w].out)
  /\ pc' = [pc EXCEPT ![w] = BasicNextAfterLineItems(res[w].out)]
  /\ UNCHANGED << cfgVars, stopVars, fnVars, qmVars, job, res, emitted, queue, receives, docs, bankTx, chunks,
                  file, histVars >>

\* saveProcessingResults, the insert into bank_transactions.
SaveBankRows(w) ==
  /\ impl = "basic"
  /\ pc[w] = "btInsert"
  /\ bankTx' = bankTx \o BankRows(res[w].out)
  /\ pc' = [pc EXCEPT ![w] = "emit100"]
  /\ UNCHANGED << cfgVars, stopVars, fnVars, qmVars, job, res, emitted, queue, receives, docs, lineItems, chunks,
                  file, histVars >>

\* updateStatus(documentId, vertical, 'complete', 100); processDocument returns.
StatusComplete(w) ==
  /\ impl = "basic"
  /\ pc[w] = "emit100"
  /\ docs' = UpdateStatus(job[w].vertical, "complete", FALSE)
  /\ Emit(w, "complete", Checkpoint("complete"))
  /\ okPasses' = okPasses + 1
  /\ UNCHANGED failedPasses
  /\ pc' = [pc EXCEPT ![w] = "ack"]
  /\ PassReturned(w)
  /\ UNCHANGED << cfgVars, stopVars, fnVars, isRunning, workers, job, res, queue, receives, dbRows, file,
                  changed, overlapped >>

\* catch of processDocument: updateStatus(documentId, vertical, 'failed', 0,
\* error.message), then rethrow.
StatusFailed(w) ==
  /\ impl = "basic"
  /\ pc[w] = "handleError"
  /\ docs' = UpdateStatus(job[w].vertical, "failed", TRUE)
  /\ Emit(w, "failed", Checkpoint("failed"))
  /\ failedPasses' = failedPasses + 1
  /\ UNCHANGED okPasses
  /\ pc' = [pc EXCEPT ![w] = "threw"]
  /\ PassReturned(w)
  /\ UNCHANGED << cfgVars, stopVars, fnVars, isRunning, workers, job, res, queue, receives, dbRows, file,
                  changed, overlapped >>

\* ---------------------------------------------------------------- environment
\* The AI service answers differently from now on (or the file was replaced).
\* This happens between passes only; before the first pass the file and its
\* answers are those Init chose.
AnswerChanges ==
  /\ \A w \in WorkerIds : ~InPass(w)
  /\ okPasses + failedPasses > 0
  /\ receives < MaxReceives
  /\ \E f \in Files : f # file /\ file' = f
  /\ changed' = TRUE
  /\ UNCHANGED << cfgVars, stopVars, fnVars, qmVars, pc, job, res, emitted, queue, receives, docs, dbRows,
                  okPasses, failedPasses, overlapped >>

\* ---------------------------------------------------------------- specification

BasicStep(w) ==
  \/ StatusClaimed(w) \/ DownloadDocument(w) \/ ProcessFileContent(w)
  \/ GenerateEmbeddings(w) \/ StatusEmbedded(w) \/ SaveProcessingResults(w)
  \/ SaveLineItemRows(w) \/ SaveBankRows(w) \/ StatusComplete(w) \/ StatusFailed(w)

Next ==
  \/ Start
  \/ AnswerChanges
  \/ \E m \in MsgIds : SendS3Event(m) \/ SendLegacyJob(m) \/ VisibilityTimeout(m)
  \/ \E w \in WorkerIds, m \in MsgIds : Receive(w, m)
  \/ \E w \in WorkerIds :
       \/ IssueReceive(w) \/ ReceiveEmpty(w) \/ PollError(w) \/ WakeUp(w)
       \/ ParseMessage(w) \/ ValidateOrganization(w)
       \/ Acknowledge(w) \/ ProcessingFailed(w)
       \/ BasicStep(w)

Spec == Init /\ [][Next]_vars

\* ------------------------------------------------------------- shutdown
\* The service with a call of queueManager.stop().  The stored file is one with a line item and a bank
\* transaction, and its answers do not change.
StopFiles ==
  { f \in Files :
      /\ f.out = [items |-> 1, txs |-> 1, shape |-> "ok"]
      /\ f.emb = <<>>
      /\ f.text = "real" }

InitStop ==
  /\ impl \in Impls
  /\ concurrency \in 1..MaxConcurrency
  /\ isRunning = FALSE
  /\ workers = {}
  /\ pc = [w \in WorkerIds |-> "off"]
  /\ job = [w \in WorkerIds |-> NoJob]
  /\ res = [w \in WorkerIds |-> NoRes]
  /\ emitted = [w \in WorkerIds |-> NoEmit]
  /\ processingJobs = {}
  /\ queue = [m \in MsgIds |-> NoMsg]
  /\ receives = 0
  /\ docs \in { [t \in Tables |-> AbsentDoc] }
              \cup { [t \in Tables |-> IF t = u THEN PendingDoc ELSE AbsentDoc] : u \in Tables }
  /\ lineItems = <<>>
  /\ bankTx = <<>>
  /\ chunks = <<>>
  /\ file \in StopFiles
  /\ okPasses = 0
  /\ failedPasses = 0
  /\ changed = FALSE
  /\ overlapped = FALSE
  /\ stopPc = "idle"
  /\ stopWaited = 0
  /\ exitCode = "running"
  /\ input = NoInput
  /\ output = NoInput

NextStop ==
  \/ Start
  \/ StopBegin
  \/ StopPoll
  \/ \E m \in MsgIds : SendS3Event(m) \/ SendLegacyJob(m) \/ VisibilityTimeout(m)
  \/ \E w \in WorkerIds, m \in MsgIds : Receive(w, m)
  \/ \E w \in WorkerIds :
       \/ IssueReceive(w) \/ LoopExit(w) \/ ReceiveEmpty(w) \/ PollError(w) \/ WakeUp(w)
       \/ ParseMessage(w) \/ ValidateOrganization(w)
       \/ Acknowledge(w) \/ ProcessingFailed(w)
       \/ BasicStep(w)

SpecStop == InitStop /\ [][NextStop]_vars

\* The service with the callers that invoke the processor directly, by
\* QueueManager.processJob or POST /process, while
\* the queue stays empty: the loops poll, stop() may be called.
NextDirect ==
  \/ Start
  \/ StopBegin
  \/ StopPoll
  \/ \E w \in WorkerIds :
       \/ IssueReceive(w) \/ LoopExit(w) \/ ReceiveEmpty(w)
       \/ ProcessJob(w)
       \/ DirectCallSettled(w)
       \/ BasicStep(w)

SpecDirect == InitStop /\ [][NextDirect]_vars

\* stop() is an async function whose sleeps are timers: the event loop always
\* resumes it.
SpecStopLive == SpecStop /\ WF_vars(StopPoll)

\* ------------------------------------------------------------- signals
\* gracefulShutdown(signal), the handler start() registers for SIGTERM and
\* SIGINT once queueManager.start() has returned.  Its first statement calls
\* server.close, but server is a const of start() and not in scope of the
\* handler: the evaluation throws a ReferenceError inside the try, and the
\* catch block calls process.exit(1).  The await of queueManager.stop() is
\* never reached.  The exit ends every worker loop where it stands; the
\* queue and the database are outside the process and keep their state.
GracefulShutdown ==
  /\ exitCode = "running"
  /\ isRunning
  /\ exitCode' = "exit1"
  /\ pc' = [w \in WorkerIds |-> "off"]
  /\ UNCHANGED << cfgVars, fnVars, qmVars, stopPc, stopWaited, job, res, emitted, queue, receives,
                  docs, dbRows, file, histVars >>

NextSignal ==
  \/ Start
  \/ GracefulShutdown
  \/ \E m \in MsgIds : SendS3Event(m) \/ SendLegacyJob(m) \/ VisibilityTimeout(m)
  \/ \E w \in WorkerIds, m \in MsgIds : Receive(w, m)
  \/ \E w \in WorkerIds :
       \/ IssueReceive(w) \/ ReceiveEmpty(w) \/ PollError(w) \/ WakeUp(w)
       \/ ParseMessage(w) \/ ValidateOrganization(w)
       \/ Acknowledge(w) \/ ProcessingFailed(w)
       \/ BasicStep(w)

SpecSignal == InitStop /\ [][NextSignal]_vars

\* ------------------------------------------------------- functions called alone
\* A function of the processors applied to one argument tuple: input holds
\* the arguments, output the result.
SampleResponses == { << >>, CombinedAnswer, CombinedFenced, CombinedProse, EscapedAnswer }

RouteInputs ==
  [fn : {"route"}, impl : Versions, kind : FileKinds, bytes : FileSizes, xlsxOk : BOOLEAN,
   blocked : BOOLEAN, resp : SampleResponses, ft : FullTextResults]

\* processFileContentEnhanced / processFileContent: the AI extraction calls
\* issued for the file, where the full text the function ends with comes from,
\* and whether the prompts carry the spreadsheet text as context.  In the
\* basic processor the text call is the combined call of a small file (it
\* fails when the response is blocked) and the full-text call otherwise; a
\* failed text call leaves xlsxText || 'Text extraction failed', and the
\* prompts carry the spreadsheet text only when xlsxToText delivered one.
RouteOf(i) ==
  IF i.impl = "enhanced"
  THEN LET ph == TextPhase(i.kind, SizeClass(i.bytes), i.xlsxOk,
                           PerformCombinedAIExtraction(i.blocked, i.resp), i.ft)
       IN [fn |-> "route", calls |-> ph.calls, threw |-> ph.threw,
           text |-> IF ph.threw THEN "none"
                    ELSE IF ph.xlsx THEN "converter" ELSE "ai",
           context |-> ph.xlsx /\ ~ph.threw]
  ELSE LET callOk == IF BasicIsSmallFile(i.bytes) THEN ~i.blocked ELSE i.ft # "throw"
            hasXlsxText == i.kind = "xlsx" /\ i.xlsxOk
       IN [fn |-> "route", calls |-> BasicExtractionCalls(i.kind, i.bytes), threw |-> FALSE,
           text |-> IF callOk THEN "ai"
                    ELSE IF hasXlsxText THEN "converter" ELSE "placeholder",
           context |-> hasXlsxText]

MaxFnWindows == 3
\* A text of n windows (chunkText), whether it has fewer than 50 characters
\* (then it is one window, or none when it is ''), and the windows whose
\* embedContent call fails or times out.
EmbedInputs ==
  { i \in [fn : {"embed"}, impl : Versions, small : BOOLEAN, n : 0..MaxFnWindows,
           short : BOOLEAN, failed : SUBSET (0..(MaxFnWindows - 1))] :
      /\ \A k \in i.failed : k < i.n \/ (i.small /\ k = 0)
      /\ i.short => i.n <= 1
      /\ i.n = 0 => i.short }

\* A loop over the windows that the first failed call ends.
RECURSIVE SurvivorsUntilFailure(_, _, _)
SurvivorsUntilFailure(k, n, failed) ==
  IF k >= n \/ k \in failed THEN << >>
  ELSE << k >> \o SurvivorsUntilFailure(k + 1, n, failed)

\* The loop over the windows k..n-1: each call sits in its own try/catch, a
\* failed call contributes nothing (null, filtered out), the others are
\* appended in order.
RECURSIVE Survivors(_, _, _)
Survivors(k, n, failed) ==
  IF k >= n THEN << >>
  ELSE (IF k \in failed THEN << >> ELSE << k >>) \o Survivors(k + 1, n, failed)

\* generateEnhancedEmbeddings / generateEmbeddings: the embeddings kept (by
\* window index) and whether an exception leaves the function.  A small
\* document of the enhanced processor gets one embedding of the whole text,
\* and [] from the outer catch when that call fails.  The basic
\* generateEmbeddings returns at once for a text of fewer than 50 characters:
\* no call is made and nothing is stored.
EmbeddingsOf(i) ==
  IF i.impl = "enhanced" /\ i.small
  THEN [threw |-> FALSE, windows |-> IF i.n = 0 \/ 0 \in i.failed THEN << >> ELSE << 0 >>]
  ELSE IF i.impl = "basic" /\ i.short
  THEN [threw |-> FALSE, windows |-> << >>]
  ELSE [threw |-> FALSE, windows |-> Survivors(0, i.n, i.failed)]

\* The rows the pass stores for them: saveDocumentChunks numbers the kept
\* embeddings by position, generateEmbeddings stores the window index.
StoredChunkRows(i) ==
  IF i.impl = "enhanced" THEN ChunkRows(EmbeddingsOf(i).windows)
  ELSE BasicChunkRows(EmbeddingsOf(i).windows)

ApplyEmbed ==
  /\ input.fn = "embed"
  /\ output = NoInput
  /\ output' = [fn |-> "embed", threw |-> EmbeddingsOf(input).threw,
                windows |-> EmbeddingsOf(input).windows, rows |-> StoredChunkRows(input)]
  /\ UNCHANGED << cfgVars, stopVars, qmVars, pc, job, res, emitted, queue, receives, docs, dbRows,
                  file, histVars, input >>

\* Characters of a numeric string: three digits, the comma, the period, and a
\* letter (of a currency code, say).
NumChars == {"0", "1", "2", ",", ".", "R"}
MaxNumLen == 6
MaxLeadingZeros == 6
MaxTrailingZeros == 21
Zeros(n) == [k \in 1..n |-> "0"]
\* Strings of a small value, 0.2 down to 0.0000001, and of a large one, 1 up
\* to 1 followed by 21 zeros.
SmallValueStrings ==
  { << "0", "." >> \o Zeros(z) \o << d >> : z \in 0..MaxLeadingZeros, d \in {"1", "2"} }
LargeValueStrings == { << "1" >> \o Zeros(n) : n \in 0..MaxTrailingZeros }
NumStrings ==
  UNION { [1..n -> NumChars] : n \in 0..MaxNumLen } \cup SmallValueStrings \cup LargeValueStrings
NumInputs == [fn : {"num"}, impl : Versions, s : NumStrings]

\* The characters \d and [0-9] match.
DecimalDigits == << "0", "1", "2", "3", "4", "5", "6", "7", "8", "9" >>
IsDigit(c) == \E k \in 1..10 : DecimalDigits[k] = c
\* The characters [A-Za-z] matches, of those that occur: the letter of an
\* input and the e of an exponent.
Letters == {"R", "e"}
Count(t, c) == Cardinality({ k \in 1..Len(t) : t[k] = c })
Remove(t, cs) == [k \in 1..Len(SelectSeq(t, LAMBDA c : c \notin cs)) |->
                   SelectSeq(t, LAMBDA c : c \notin cs)[k]]
\* String.prototype.replace with a string pattern: the first occurrence only.
ReplaceFirst(t, c, d) ==
  IF Count(t, c) = 0 THEN t
  ELSE [t EXCEPT ![Least({ k \in 1..Len(t) : t[k] = c })] = d]
\* lastIndexOf, counted from 1; 0 when the character does not occur.
LastIndexOf(t, c) ==
  IF Count(t, c) = 0 THEN 0 ELSE Greatest({ k \in 1..Len(t) : t[k] = c })

\* A number, by the digits of its integer part without leading zeros and the
\* digits of its fraction without trailing zeros (both empty for 0).
Number(int, frac) ==
  LET intNz == { k \in 1..Len(int) : int[k] # "0" }
      fracNz == { k \in 1..Len(frac) : frac[k] # "0" }
  IN [nan |-> FALSE,
      int |-> IF intNz = {} THEN << >> ELSE SubSeq(int, Least(intNz), Len(int)),
      frac |-> IF fracNz = {} THEN << >> ELSE SubSeq(frac, 1, Greatest(fracNz))]

\* null, which both functions return for '' and for what parseFloat reads as NaN.
NaN == [nan |-> TRUE, int |-> << >>, frac |-> << >>]

\* parseFloat: the number of the longest prefix of digits, a period and
\* digits; NaN when the prefix has no digit.  Whatever follows the prefix, a
\* minus sign for one, is ignored.  (No string here begins with a sign or
\* keeps the letter of an exponent.)
ParseFloat(t) ==
  LET digitsFrom(a) == Greatest({ k \in (a - 1)..Len(t) : \A j \in a..k : IsDigit(t[j]) })
      e1 == digitsFrom(1)
      hasDot == e1 < Len(t) /\ t[e1 + 1] = "."
      e2 == IF hasDot THEN digitsFrom(e1 + 2) ELSE e1
      int == SubSeq(t, 1, e1)
      frac == IF hasDot THEN SubSeq(t, e1 + 2, e2) ELSE << >>
  IN IF int = << >> /\ frac = << >> THEN NaN ELSE Number(int, frac)

\* The decimal digits of a natural number below 100.
NatToString(n) ==
  IF n < 10 THEN << DecimalDigits[n + 1] >>
  ELSE << DecimalDigits[(n \div 10) + 1], DecimalDigits[(n % 10) + 1] >>

\* The significant digits of an exponent form: the first, then a period and
\* the others if there are others.
Mantissa(ds) ==
  << ds[1] >> \o (IF Len(ds) > 1 THEN << "." >> \o SubSeq(ds, 2, Len(ds)) ELSE << >>)

\* String(value) of a number that is not negative: its decimal digits when
\* the value is at least 0.000001 and below 1e21, else the exponent form
\* (1e-7, 1.5e-7, 1e+21).
NumberToString(v) ==
  LET digits == v.int \o v.frac
      nz == { k \in 1..Len(digits) : digits[k] # "0" }
      zeros == IF v.frac = << >> THEN 0
               ELSE Least({ k \in 1..Len(v.frac) : v.frac[k] # "0" }) - 1
  IN IF v.int = << >> /\ v.frac # << >> /\ zeros >= 6
     THEN Mantissa(SubSeq(v.frac, zeros + 1, Len(v.frac))) \o << "e", "-" >>
            \o NatToString(zeros + 1)
     ELSE IF Len(v.int) > 21
     THEN Mantissa(SubSeq(digits, 1, Greatest(nz))) \o << "e", "+" >>
            \o NatToString(Len(v.int) - 1)
     ELSE (IF v.int = << >> THEN << "0" >> ELSE v.int)
            \o (IF v.frac = << >> THEN << >> ELSE << "." >> \o v.frac)

\* parseNumericValue of part_004 applied to a string.
ParseNumericValue(s) ==
  LET clean == Remove(s, Letters)
      periodCount == Count(clean, ".")
      commaCount == Count(clean, ",")
      lastPeriod == LastIndexOf(clean, ".")
      lastComma == LastIndexOf(clean, ",")
      aroundLast(k) == Remove(SubSeq(clean, 1, k - 1), {",", "."}) \o << "." >>
                         \o SubSeq(clean, k + 1, Len(clean))
      separated ==
        IF periodCount > 1 /\ commaCount = 1 THEN ReplaceFirst(Remove(clean, {"."}), ",", ".")
        ELSE IF periodCount = 1 /\ commaCount > 1 THEN Remove(clean, {","})
        ELSE IF periodCount = 0 /\ commaCount = 1 THEN ReplaceFirst(clean, ",", ".")
        ELSE IF periodCount = 1 /\ commaCount = 0 THEN clean
        ELSE IF lastPeriod > lastComma /\ lastPeriod > 0 THEN aroundLast(lastPeriod)
        ELSE IF lastComma > lastPeriod /\ lastComma > 0 THEN aroundLast(lastComma)
        ELSE Remove(clean, {",", "."})
      final == SelectSeq(separated, LAMBDA c : IsDigit(c) \/ c \in {".", "-"})
  IN IF s = << >> THEN NaN
     ELSE IF final = << >> \/ final = << "-" >> \/ final = << "." >> THEN NaN
     ELSE ParseFloat(final)

\* parseNumericValue of the basic processor applied to a string.
BasicParseNumericValue(s) ==
  LET clean == SelectSeq(s, LAMBDA c : IsDigit(c) \/ c \in {".", ",", "-"})
      periodCount == Count(clean, ".")
      commaCount == Count(clean, ",")
      separated ==
        IF periodCount > 1 /\ commaCount = 1 THEN ReplaceFirst(Remove(clean, {"."}), ",", ".")
        ELSE IF commaCount > 1 /\ periodCount <= 1 THEN Remove(clean, {","})
        ELSE IF commaCount = 1 /\ periodCount = 0 THEN ReplaceFirst(clean, ",", ".")
        ELSE clean
  IN IF s = << >> \/ clean = << >> THEN NaN ELSE ParseFloat(separated)

\* parseNumericValue of either processor.
Normalize(i, s) ==
  IF i = "enhanced" THEN ParseNumericValue(s) ELSE BasicParseNumericValue(s)

\* The function applied to a string and, when that gave a number, applied
\* again to the string form of the number.
ApplyParseNumericValue ==
  /\ input.fn = "num"
  /\ output = NoInput
  /\ output' = [fn |-> "num",
                value |-> Normalize(input.impl, input.s),
                again |-> IF Normalize(input.impl, input.s) = NaN THEN NaN
                          ELSE Normalize(input.impl,
                                         NumberToString(Normalize(input.impl, input.s)))]
  /\ UNCHANGED << cfgVars, stopVars, qmVars, pc, job, res, emitted, queue, receives, docs, dbRows,
                  file, histVars, input >>

\* The response of the structured call: blocked or failed, or a text.
ParseInputs == [fn : {"parse"}, impl : Versions, blocked : BOOLEAN, resp : Responses]

\* extractStructuredData from the response on: a record, or an exception.
ApplyExtractStructuredData ==
  /\ input.fn = "parse"
  /\ output = NoInput
  /\ output' = [fn |-> "parse",
                result |-> IF input.impl = "enhanced"
                           THEN ExtractStructuredDataResult(input.blocked, input.resp)
                           ELSE BasicExtractStructuredData(~input.blocked, input.resp)]
  /\ UNCHANGED << cfgVars, stopVars, qmVars, pc, job, res, emitted, queue, receives, docs, dbRows,
                  file, histVars, input >>

ApplyRoute ==
  /\ input.fn = "route"
  /\ output = NoInput
  /\ output' = RouteOf(input)
  /\ UNCHANGED << cfgVars, stopVars, qmVars, pc, job, res, emitted, queue, receives, docs, dbRows,
                  file, histVars, input >>

\* What the quality check of performCombinedAIExtraction reads of the parsed
\* object: whether vendor and amount are neither null nor undefined, whether
\* line_items is a non-empty array, whether description is a string that is
\* not blank.
ExtractedObjects ==
  [vendor : BOOLEAN, amount : BOOLEAN, lineItems : BOOLEAN, description : BOOLEAN]

\* hasLineItems || hasDescription || hasCoreMeta, where hasCoreMeta is
\* vendor != null && amount != null.  Without it extractedData is set to null.
QualityOk(d) == d.lineItems \/ d.description \/ (d.vendor /\ d.amount)

QualityInputs == [fn : {"quality"}, d : ExtractedObjects]

ApplyQualityCheck ==
  /\ input.fn = "quality"
  /\ output = NoInput
  /\ output' = [fn |-> "quality", kept |-> QualityOk(input.d)]
  /\ UNCHANGED << cfgVars, stopVars, qmVars, pc, job, res, emitted, queue, receives, docs, dbRows,
                  file, histVars, input >>

\* ---- AI calls
\* What the AI service does with the successive attempts of one call: it
\* answers, fails with a 5xx or a 4xx status, or never responds.
Outcomes == {"ok", "e500", "e400", "hang"}
Retries == 3
Scripts == [1..Retries -> Outcomes]
AiCalls == {"combined", "fulltext", "structured", "embedding"}

\* A call made once, with nothing around it: its promise settles with the
\* answer or the error, or stays pending.
Once(script) ==
  [attempts |-> 1, result |-> IF script[1] = "hang" THEN "pending" ELSE script[1]]

\* withRetry(fn, retries = 3): for (i = 0; i < retries; i++) it awaits fn();
\* an error with a status from 500 to 599 is kept as lastError and, after a
\* sleep, the loop goes on; any other error is thrown at once; after the loop
\* lastError is thrown.  An attempt that never settles leaves the loop
\* waiting at its await.
RECURSIVE RetryFrom(_, _, _)
RetryFrom(script, i, retries) ==
  IF script[i] = "ok" THEN [attempts |-> i, result |-> "ok"]
  ELSE IF script[i] = "hang" THEN [attempts |-> i, result |-> "pending"]
  ELSE IF script[i] = "e500" /\ i < retries THEN RetryFrom(script, i + 1, retries)
  ELSE [attempts |-> i, result |-> script[i]]

WithRetry(script) == RetryFrom(script, 1, Retries)

\* withTimeout(promise, timeoutMs): Promise.race of the promise and a timer
\* that rejects with the timeout error.  A pending promise loses the race;
\* nothing cancels it.  The attempts answer or fail at once or never, so a
\* settled promise wins.
WithTimeout(r) == IF r.result = "pending" THEN [r EXCEPT !.result = "timeout"] ELSE r

\* The AI calls as the processors make them.  Enhanced: the structured
\* extraction is withTimeout(withRetry(call)); the combined call, the full
\* text call and each embedding call are withTimeout(call).  Basic: every call
\* is awaited bare.
AiCall(i, call, script) ==
  IF i = "basic" THEN Once(script)
  ELSE IF call = "structured" THEN WithTimeout(WithRetry(script))
  ELSE WithTimeout(Once(script))

CallInputs == [fn : {"call"}, impl : Versions, call : AiCalls, script : Scripts]

ApplyAiCall ==
  /\ input.fn = "call"
  /\ output = NoInput
  /\ output' = AiCall(input.impl, input.call, input.script)
  /\ UNCHANGED << cfgVars, stopVars, qmVars, pc, job, res, emitted, queue, receives, docs, dbRows,
                  file, histVars, input >>

\* Math.min(start + chunkSize, text.length); words.slice(i, i + chunkSize) ends
\* there too.
WindowEnd(start, chunkSize, length) ==
  IF start + chunkSize < length THEN start + chunkSize ELSE length

\* ---- the retry loop in time
\* An attempt of the structured extraction call: how it ends, and after how
\* many seconds.  The timer of withTimeout fires after 45 s; withRetry sleeps
\* delay * (i + 1) with delay = 1000 ms after the failure of attempt i
\* (counted from 0).
AiTimeoutSeconds == 45
RetryDelaySeconds == 1
AttemptSeconds == {1, 50}
TimedOutcomes == [result : {"ok", "e500", "e400"}, secs : AttemptSeconds]
TimedScripts == [1..Retries -> TimedOutcomes]

\* withRetry to its end, whatever happens to the timer around it: the times at
\* which it issues its attempts, the time at which its promise settles, and
\* how.  Attempt i (counted from 1) is issued at time now.
RECURSIVE RetryTimeline(_, _, _)
RetryTimeline(script, i, now) ==
  LET end == now + script[i].secs
      wake == end + RetryDelaySeconds * i
  IN IF script[i].result # "e500"
     THEN [issued |-> << now >>, settles |-> end, result |-> script[i].result]
     ELSE IF i < Retries
     THEN LET rest == RetryTimeline(script, i + 1, wake)
          IN [issued |-> << now >> \o rest.issued, settles |-> rest.settles,
              result |-> rest.result]
     ELSE [issued |-> << now >>, settles |-> wake, result |-> "e500"]

\* withTimeout(withRetry(...), 45000): the caller gets what settles first; the
\* retry loop is not told and runs to its end.
TimedStructuredCall(script) ==
  LET t == RetryTimeline(script, 1, 0)
  IN [fn |-> "timed", issued |-> t.issued,
      result |-> IF t.settles < AiTimeoutSeconds THEN t.result ELSE "timeout"]

TimedInputs == [fn : {"timed"}, script : TimedScripts]

ApplyTimedCall ==
  /\ input.fn = "timed"
  /\ output = NoInput
  /\ output' = TimedStructuredCall(input.script)
  /\ UNCHANGED << cfgVars, stopVars, qmVars, pc, job, res, emitted, queue, receives, docs, dbRows,
                  file, histVars, input >>

\* ---- embedding requests
\* The windows the enhanced chunkText returns for a text of the given length.
RECURSIVE WindowCountFrom(_, _, _, _)
WindowCountFrom(start, length, chunkSize, chunkOverlap) ==
  LET end == WindowEnd(start, chunkSize, length)
  IN IF end >= length THEN 1
     ELSE 1 + WindowCountFrom(end - chunkOverlap, length, chunkSize, chunkOverlap)

WindowCount(length, chunkSize, chunkOverlap) ==
  IF length = 0 THEN 0
  ELSE IF length <= chunkSize THEN 1
  ELSE WindowCountFrom(0, length, chunkSize, chunkOverlap)

CHUNK_SIZE == 700
CHUNK_OVERLAP == 100
MAX_CONCURRENT == 10
TextLengths == {0, 300, 700, 701, 1400, 3000}

\* generateEnhancedEmbeddings: the embedContent requests it issues.  None
\* without a text; one for the whole text when isSmallDocument, which is
\* fileBuffer.byteLength < SMALL_DOC_THRESHOLD; else one per window.
EmbeddingRequests(bytes, textLength) ==
  IF textLength = 0 THEN 0
  ELSE IF bytes < SMALL_DOC_THRESHOLD THEN 1
  ELSE WindowCount(textLength, CHUNK_SIZE, CHUNK_OVERLAP)

RequestInputs == [fn : {"requests"}, bytes : FileSizes, textLength : TextLengths]

ApplyEmbeddingRequests ==
  /\ input.fn = "requests"
  /\ output = NoInput
  /\ output' = [fn |-> "requests",
                requests |-> EmbeddingRequests(input.bytes, input.textLength)]
  /\ UNCHANGED << cfgVars, stopVars, qmVars, pc, job, res, emitted, queue, receives, docs, dbRows,
                  file, histVars, input >>

\* The chunked path over n windows, of which those in hung get no response.
\* Batch b holds the windows MAX_CONCURRENT * (b - 1) up to MAX_CONCURRENT * b
\* - 1; its requests are issued together, each inside withTimeout(..., 10000)
\* and a catch, and Promise.all awaits them.  A request without response
\* settles its wrapper through the timer and is itself still in flight when
\* the next batch is issued.
MaxBatchWindows == 20
BatchInputs ==
  { i \in [fn : {"batches"}, n : 0..MaxBatchWindows,
           hung : SUBSET {0, MAX_CONCURRENT - 1, MAX_CONCURRENT}] :
      \A k \in i.hung : k < i.n }

\* For each batch, the requests in flight once the batch has been issued.
BatchInFlight(n, hung) ==
  LET batches == (n + MAX_CONCURRENT - 1) \div MAX_CONCURRENT
      first(b) == MAX_CONCURRENT * (b - 1)
      size(b) == IF first(b) + MAX_CONCURRENT <= n THEN MAX_CONCURRENT ELSE n - first(b)
  IN [b \in 1..batches |-> size(b) + Cardinality({ k \in hung : k < first(b) })]

ApplyBatches ==
  /\ input.fn = "batches"
  /\ output = NoInput
  /\ output' = [fn |-> "batches", inFlight |-> BatchInFlight(input.n, input.hung)]
  /\ UNCHANGED << cfgVars, stopVars, qmVars, pc, job, res, emitted, queue, receives, docs, dbRows,
                  file, histVars, input >>

FnInputs ==
  RouteInputs \cup EmbedInputs \cup NumInputs \cup ParseInputs \cup QualityInputs \cup CallInputs
    \cup TimedInputs \cup RequestInputs \cup BatchInputs

InitFn ==
  /\ impl = "basic"
  /\ concurrency = 1
  /\ isRunning = FALSE
  /\ workers = {}
  /\ pc = [w \in WorkerIds |-> "off"]
  /\ job = [w \in WorkerIds |-> NoJob]
  /\ res = [w \in WorkerIds |-> NoRes]
  /\ emitted = [w \in WorkerIds |-> NoEmit]
  /\ processingJobs = {}
  /\ queue = [m \in MsgIds |-> NoMsg]
  /\ receives = 0
  /\ docs = [t \in Tables |-> AbsentDoc]
  /\ lineItems = <<>>
  /\ bankTx = <<>>
  /\ chunks = <<>>
  /\ file \in StopFiles
  /\ okPasses = 0
  /\ failedPasses = 0
  /\ changed = FALSE
  /\ overlapped = FALSE
  /\ stopPc = "idle"
  /\ stopWaited = 0
  /\ exitCode = "running"
  /\ input \in FnInputs
  /\ output = NoInput

NextFn ==
  \/ ApplyRoute
  \/ ApplyQualityCheck
  \/ ApplyAiCall
  \/ ApplyTimedCall
  \/ ApplyEmbeddingRequests
  \/ ApplyBatches
  \/ ApplyEmbed
  \/ ApplyParseNumericValue
  \/ ApplyExtractStructuredData

SpecFn == InitFn /\ [][NextFn]_vars

\* ---------------------------------------------------------------- chunkText
\* The loop of chunkText, one iteration at a time.  A text is a sequence of
\* letters "a" and blanks " ".  input holds the arguments; output holds
\* the loop variable (start, or i), the windows pushed so far as index ranges
\* [start, end) over the units the function counts in, and whether it has
\* returned.  The enhanced chunkText counts characters, the basic one words.
MaxWords == 4
MaxChunkSize == 3

\* The text of n one-letter words separated by single blanks.
RECURSIVE Words(_)
Words(n) == IF n = 0 THEN << >> ELSE IF n = 1 THEN << "a" >> ELSE << "a", " " >> \o Words(n - 1)

\* Texts of up to MaxWords words, with or without a leading and a trailing
\* blank.
Texts ==
  { (IF lead THEN << " " >> ELSE << >>) \o Words(n) \o (IF trail THEN << " " >> ELSE << >>) :
      lead \in BOOLEAN, n \in 0..MaxWords, trail \in BOOLEAN }

ChunkInputs ==
  { i \in [fn : {"chunk"}, impl : Versions, text : Texts, chunkSize : 1..MaxChunkSize,
           chunkOverlap : 0..(MaxChunkSize - 1)] : i.chunkOverlap < i.chunkSize }

\* text.split(/\s+/): the pieces between the maximal runs of white space, the
\* empty pieces before a leading and after a trailing run included.
Split(t) ==
  LET runs == { a \in 1..Len(t) : t[a] # " " /\ (a = 1 \/ t[a - 1] = " ") }
      runEnd(a) == Least({ b \in a..Len(t) : b = Len(t) \/ t[b + 1] = " " })
      nth(k) == CHOOSE a \in runs : Cardinality({ x \in runs : x < a }) = k - 1
      empty == << << >> >>
  IN IF t = << >> THEN empty
     ELSE (IF t[1] = " " THEN empty ELSE << >>)
            \o [k \in 1..Cardinality(runs) |-> SubSeq(t, nth(k), runEnd(nth(k)))]
            \o (IF t[Len(t)] = " " THEN empty ELSE << >>)

\* The units chunkText counts: characters of the text, or words of it.
Units(i) == IF i.impl = "enhanced" THEN Len(i.text) ELSE Len(Split(i.text))

\* A loop that steps back one unit more than the overlap.
NextStartShort(i, start, end) ==
  IF i.impl = "enhanced" THEN end - i.chunkOverlap - 1
  ELSE start + (i.chunkSize - i.chunkOverlap) - 1

\* Enhanced: start = end - chunkOverlap.  Basic: i += chunkSize - overlap.
NextStart(i, start, end) ==
  IF i.impl = "enhanced" THEN end - i.chunkOverlap
  ELSE start + (i.chunkSize - i.chunkOverlap)

\* chunk.trim() of the joined words slice(start, end) is not ''.
WindowNotBlank(words, start, end) == \E k \in (start + 1)..end : words[k] # << >>

\* chunkText up to its loop.  Enhanced: [] for an empty text, [text] for a
\* text of at most chunkSize characters, else start = 0.  Basic: i = 0.
ChunkBegin ==
  /\ input.fn = "chunk"
  /\ output = NoInput
  /\ output' =
       IF input.impl = "basic"
       THEN [fn |-> "chunk", start |-> 0, chunks |-> << >>, done |-> FALSE]
       ELSE IF input.text = << >>
       THEN [fn |-> "chunk", start |-> 0, chunks |-> << >>, done |-> TRUE]
       ELSE IF Len(input.text) <= input.chunkSize
       THEN [fn |-> "chunk", start |-> 0,
             chunks |-> << [start |-> 0, end |-> Len(input.text)] >>, done |-> TRUE]
       ELSE [fn |-> "chunk", start |-> 0, chunks |-> << >>, done |-> FALSE]
  /\ UNCHANGED << cfgVars, stopVars, qmVars, pc, job, res, emitted, queue, receives, docs, dbRows,
                  file, histVars, input >>

\* One evaluation of the loop condition and, when it holds, one iteration.
\* Enhanced: push the window, return when it reaches the end of the text,
\* else move start.  Basic: push the window unless it is blank, move i.
ChunkStep ==
  /\ input.fn = "chunk"
  /\ output # NoInput
  /\ ~output.done
  /\ LET length == Units(input)
         end == WindowEnd(output.start, input.chunkSize, length)
         window == [start |-> output.start, end |-> end]
     IN output' =
          IF ~(output.start < length) THEN [output EXCEPT !.done = TRUE]
          ELSE IF input.impl = "enhanced"
          THEN IF end >= length
               THEN [output EXCEPT !.chunks = Append(@, window), !.done = TRUE]
               ELSE [output EXCEPT !.chunks = Append(@, window),
                                   !.start = NextStart(input, output.start, end)]
          ELSE [output EXCEPT
                  !.chunks = IF WindowNotBlank(Split(input.text), output.start, end)
                             THEN Append(@, window) ELSE @,
                  !.start = NextStart(input, output.start, end)]
  /\ UNCHANGED << cfgVars, stopVars, qmVars, pc, job, res, emitted, queue, receives, docs, dbRows,
                  file, histVars, input >>

InitChunk ==
  /\ impl = "basic"
  /\ concurrency = 1
  /\ isRunning = FALSE
  /\ workers = {}
  /\ pc = [w \in WorkerIds |-> "off"]
  /\ job = [w \in WorkerIds |-> NoJob]
  /\ res = [w \in WorkerIds |-> NoRes]
  /\ emitted = [w \in WorkerIds |-> NoEmit]
  /\ processingJobs = {}
  /\ queue = [m \in MsgIds |-> NoMsg]
  /\ receives = 0
  /\ docs = [t \in Tables |-> AbsentDoc]
  /\ lineItems = <<>>
  /\ bankTx = <<>>
  /\ chunks = <<>>
  /\ file \in StopFiles
  /\ okPasses = 0
  /\ failedPasses = 0
  /\ changed = FALSE
  /\ overlapped = FALSE
  /\ stopPc = "idle"
  /\ stopWaited = 0
  /\ exitCode = "running"
  /\ input \in ChunkInputs
  /\ output = NoInput

NextChunk == ChunkBegin \/ ChunkStep

SpecChunk == InitChunk /\ [][NextChunk]_vars

\* chunkText is a synchronous function: once called with its arguments it
\* runs on, statement after statement.
SpecChunkLive == SpecChunk /\ WF_vars(NextChunk)

\* ---------------------------------------------------------------- properties
LoopPcs == {"off", "poll", "receiving", "sleeping", "stopped"}
Idle == \A w \in WorkerIds : pc[w] \in LoopPcs
BusyWorkers == { w \in WorkerIds : pc[w] \notin LoopPcs }

\* Child rows one pass over the current file writes.
PassLineItems(o) == BasicLineItemRows(o)
PassChunks(emb) == BasicChunkRows(emb)

\* C1: a worker whose processDocument call threw goes back to its loop without
\* touching the message, and a message becomes deleted only in a step of the
\* worker holding it that is a tenant-validation drop or the acknowledgement
\* after processDocument returned (which alone leads to the acknowledgement).
C1_DeleteOnlyAfterDropOrSuccess ==
  [][ /\ \A w \in WorkerIds :
           (pc[w] = "threw" /\ pc'[w] # "threw") => queue' = queue
      /\ \A w \in WorkerIds :
           (pc'[w] = "ack" /\ pc[w] # "ack") => pc[w] = "emit100"
      /\ \A m \in MsgIds :
           (queue[m].state # "deleted" /\ queue'[m].state = "deleted") =>
             \E w \in WorkerIds :
               /\ job[w].msg = m
               /\ pc'[w] = "poll"
               /\ \/ pc[w] = "ack"
                  \/ pc[w] = "received" /\ queue[m].org = "none"
                  \/ pc[w] = "validateOrg" ]_vars

\* A pass has thrown, none has returned, every loop is back at its receive and
\* the message is still in the queue (in flight until its timeout).
C1_Witness ==
  /\ failedPasses > 0
  /\ okPasses = 0
  /\ isRunning
  /\ Idle
  /\ \E m \in MsgIds : queue[m].state = "inflight"

\* C2 (as stated): a worker that finishes a message whose tenant identifier is
\* present but names no tenant has deleted it (or the queue rejected the
\* delete it sent), and no such message enters a pass.
C2_GhostTenantDeleted ==
  [][ \A w \in WorkerIds :
        (job[w] # NoJob /\ queue[job[w].msg].org = "ghost") =>
          /\ ~InPass(w)'
          /\ (pc'[w] = "poll" =>
                (queue'[job[w].msg].state = "deleted" \/ queue'[job[w].msg].rejected)) ]_vars

\* C3 (as stated): a worker that finishes a message from which no tenant
\* identifier can be determined has deleted it (or the queue rejected the
\* delete it sent), and no such message enters a pass.
C3_NoTenantDeleted ==
  [][ \A w \in WorkerIds :
        (job[w] # NoJob /\ queue[job[w].msg].org = "none") =>
          /\ ~InPass(w)'
          /\ (pc'[w] = "poll" =>
                (queue'[job[w].msg].state = "deleted" \/ queue'[job[w].msg].rejected)) ]_vars

\* C4: never more busy loops, nor more ids in processingJobs, than the
\* configured concurrency, and a loop takes a message only when it holds none.
C4_OneJobPerWorker ==
  /\ [](/\ Cardinality(BusyWorkers \cap workers) <= concurrency
        /\ Cardinality(processingJobs) <= concurrency)
  /\ [][ \A w \in WorkerIds :
           /\ (job'[w] # job[w] /\ job'[w] # NoJob) => job[w] = NoJob
           /\ (pc'[w] = "receiving" /\ pc[w] # "receiving") => job[w] = NoJob ]_vars

\* The single loop is inside a pass while a message waits visible in the queue.
C4_Witness ==
  /\ concurrency = 1
  /\ InPass(0)
  /\ processingJobs # {}
  /\ \E m \in MsgIds : queue[m].state = "visible"

\* C5 (as stated): once a document record is complete or failed, no step
\* changes its status.
C5_TerminalStatus ==
  [][ \A t \in Tables :
        docs[t].status \in {"complete", "failed"} => docs'[t].status = docs[t].status ]_vars

\* C6 (as stated): at the moment processDocument throws (no other pass having
\* run beside it) the existing document record is failed and carries the error
\* message and the elapsed time.
C6_FailureRecorded ==
  [][ \A w \in WorkerIds :
        (pc[w] # "threw" /\ pc'[w] = "threw" /\ ~overlapped
           /\ docs[TableOf(job[w].vertical)].status # "absent") =>
          LET d == docs'[TableOf(job[w].vertical)]
          IN d.status = "failed" /\ d.err /\ d.time ]_vars

\* C7 (as stated): after two overlapping passes over the same answers have
\* both returned, the child rows are those of one pass.
C7_RacingPassesConverge ==
  (overlapped /\ ~changed /\ okPasses = 2 /\ failedPasses = 0 /\ Idle) =>
    /\ lineItems = PassLineItems(file.out)
    /\ bankTx = BankRows(file.out)
    /\ chunks = PassChunks(file.emb)

\* C8 (as stated): after two passes in sequence over the same answers, the
\* child rows are those of one pass.
C8_TwiceIsOnce ==
  (~overlapped /\ ~changed /\ okPasses = 2 /\ failedPasses = 0 /\ Idle) =>
    /\ lineItems = PassLineItems(file.out)
    /\ bankTx = BankRows(file.out)
    /\ chunks = PassChunks(file.emb)

\* C9 (as stated): at the moment a pass returns (no other pass having run
\* beside it) the child rows are exactly the rows of that pass.
C9_RowsAreThoseOfThePass ==
  [][ \A w \in WorkerIds :
        (pc[w] # "ack" /\ pc'[w] = "ack" /\ ~overlapped) =>
          /\ lineItems' = PassLineItems(res[w].out)
          /\ bankTx' = BankRows(res[w].out)
          /\ chunks' = PassChunks(res[w].emb) ]_vars

\* C10 (as stated): a pass that returns, and so marks the document complete,
\* has obtained a real full text, not an empty one and not the placeholder.
C10_CompleteHasText ==
  \A w \in WorkerIds : pc[w] = "ack" => res[w].text = "real"

\* C11: a pass whose structured extraction fails while the full text was
\* obtained goes on with the default record: it leaves processFileContent for
\* the embeddings with the text and the default structured data, and no later
\* step of a pass with the default record leads to the error handler, so the
\* pass ends with the status call that marks the document complete.
C11_ExtractionFailureTolerated ==
  [][ \A w \in WorkerIds :
        /\ (pc[w] = "content" /\ pc'[w] # "content" /\ ~file.structOk /\ file.text = "real") =>
             (pc'[w] = "embed" /\ res'[w].out = DefaultOut /\ res'[w].text = "real")
        /\ (pc[w] \in {"embed", "emit90", "update", "liInsert", "btInsert", "emit100"}
              /\ res[w].out = DefaultOut /\ pc'[w] # pc[w]) =>
             pc'[w] \in {"emit90", "update", "liInsert", "btInsert", "emit100", "ack"} ]_vars

\* C11 witness: a pass over a file with a real text whose structured extraction
\* failed has returned with the default record, and the document is complete.
C11_Witness ==
  \E w \in WorkerIds :
    /\ pc[w] = "ack"
    /\ ~file.structOk /\ file.text = "real" /\ ~changed
    /\ res[w].out = DefaultOut /\ res[w].text = "real"
    /\ docs[TableOf(job[w].vertical)].status = "complete"

\* C12: once stop() has set isRunning to false no loop issues another
\* ReceiveMessage, whether it was at its loop test, sleeping after a poll
\* error or busy with a job; and the call of stop() touches no job in flight:
\* the positions of the loops, their jobs and results, the in-flight set, the
\* queue and the stored rows are as before.
C12_NoReceiveAfterStop ==
  [][ /\ \A w \in WorkerIds :
           (~isRunning /\ stopPc # "idle") => ~(pc[w] # "receiving" /\ pc'[w] = "receiving")
      /\ (stopPc = "idle" /\ stopPc' # "idle") =>
           UNCHANGED << pc, job, res, emitted, processingJobs, queue, docs, dbRows >> ]_vars

\* C12 witness: after stop() one loop has left its loop while another loop is
\* finishing the pass of the job it had in flight.
C12_Witness ==
  /\ stopPc # "idle"
  /\ \E w \in WorkerIds : pc[w] = "stopped"
  /\ \E w \in WorkerIds : pc[w] = "emit100" /\ job[w].msg \in processingJobs

\* C13: stop() returns, and returns exactly when the in-flight set is seen
\* empty or the ceiling has elapsed: a waiting stop() always ends up
\* returned; it never returns while jobs are in flight and the ceiling has not
\* elapsed; and a look at an empty in-flight set is its last.
C13_StopReturns ==
  /\ (stopPc = "waiting") ~> (stopPc = "returned")
  /\ [][ /\ (stopPc = "waiting" /\ stopPc' = "returned") =>
             (processingJobs = {} \/ stopWaited >= MaxStopSleeps)
         /\ (stopPc = "waiting" /\ stopWaited' # stopWaited) =>
             (processingJobs # {} /\ stopWaited < MaxStopSleeps) ]_vars

\* C13 witness: stop() has returned at the ceiling with a job still in flight.
C13_Witness ==
  stopPc = "returned" /\ processingJobs # {} /\ stopWaited = MaxStopSleeps

\* Routing of a non-spreadsheet file below 500 KiB whose combined response is
\* in the format asked for, with a full text and adequate data.
SmallWithGoodAnswer ==
  /\ input.fn = "route" /\ output # NoInput
  /\ input.kind = "pdf" /\ input.bytes < 512000
  /\ ~input.blocked /\ input.resp \in {CombinedAnswer, CombinedFenced}

\* C14 (as stated): for such a file exactly one AI extraction call is issued,
\* the combined call.
C14_OneCallForSmall ==
  SmallWithGoodAnswer => output.calls = << "combined" >>

\* C15 (as stated): for a non-spreadsheet file of 2 MiB or more, more than one
\* full-text call is issued, and after them one structured call.
C15_LargeIsSplit ==
  (input.fn = "route" /\ output # NoInput /\ input.impl = "enhanced"
     /\ input.kind = "pdf" /\ input.bytes >= 2097152 /\ input.ft = "real") =>
    /\ Len(SelectSeq(output.calls, LAMBDA c : c = "fullText")) > 1
    /\ output.calls[Len(output.calls)] = "structured"

\* C16 (as stated): for a spreadsheet of any size no full-text call and no
\* combined call is issued; when the converter delivers a text, that text is
\* the full text and the one structured call gets it as context.
C16_SpreadsheetBypass ==
  (input.fn = "route" /\ output # NoInput /\ input.kind = "xlsx") =>
    /\ \A k \in 1..Len(output.calls) : output.calls[k] \notin {"fullText", "combined"}
    /\ input.xlsxOk =>
         (output.calls = << "structured" >> /\ output.text = "converter" /\ output.context)

\* C17: the embeddings a text of several windows ends with are exactly those
\* of the windows whose call succeeded, in window order, and no exception
\* leaves the embedding step, also when every call fails or the one call for
\* the whole text of a small document fails.  (For a text of fewer than 50
\* characters the basic processor makes no call and keeps nothing.)
C17_EmbeddingFailuresDropWindows ==
  (input.fn = "embed" /\ output # NoInput) =>
    /\ ~output.threw
    /\ (input.impl = "enhanced" /\ input.small) =>
         output.windows \in {<< >>, << 0 >>}
    /\ (input.impl = "basic" /\ input.short) => output.windows = << >>
    /\ (~(input.impl = "enhanced" /\ input.small) /\ ~(input.impl = "basic" /\ input.short)) =>
         /\ \A k \in 0..(input.n - 1) :
              (k \in input.failed) <=> (\A j \in 1..Len(output.windows) : output.windows[j] # k)
         /\ \A j \in 1..Len(output.windows) : output.windows[j] \in 0..(input.n - 1)
         /\ \A j \in 1..(Len(output.windows) - 1) : output.windows[j] < output.windows[j + 1]

\* C17 witness: of three windows the middle one failed and the other two
\* were kept.
C17_Witness ==
  /\ input.fn = "embed" /\ input.n = 3 /\ input.failed = {1} /\ ~input.small
  /\ output # NoInput /\ output.windows = << 0, 2 >>

\* C18 (as stated): the stored chunk rows carry chunk_index 0, 1, ..., k-1 in
\* order, also when windows were dropped.
C18_ChunkIndexContiguous ==
  (input.fn = "embed" /\ output # NoInput) =>
    \A j \in 1..Len(output.rows) : output.rows[j].chunk_index = j - 1

\* C19 (as stated): whatever the text of the response (empty, prose,
\* malformed JSON, fenced JSON), structured extraction returns a record, the
\* parsed one or the default one, and raises nothing.
C19_ParsingNeverThrows ==
  (input.fn = "parse" /\ output # NoInput /\ ~input.blocked) => output.result # "throw"

\* C20 (as stated): a numeric string that, letters stripped, has more than one
\* comma and at most one period is read with all its commas removed: the
\* digits before the period are the integer part, those after it the
\* fraction.
C20_CommasAreThousands ==
  (/\ input.fn = "num" /\ output # NoInput
   /\ Count(input.s, ",") > 1 /\ Count(input.s, ".") <= 1
   /\ \E k \in 1..Len(input.s) : IsDigit(input.s[k])) =>
    LET digits == SelectSeq(input.s, LAMBDA c : c \notin {",", "R"})
        dot == IF Count(digits, ".") = 0 THEN Len(digits) + 1
               ELSE CHOOSE k \in 1..Len(digits) : digits[k] = "."
    IN output.value = Number(SubSeq(digits, 1, dot - 1), SubSeq(digits, dot + 1, Len(digits)))

\* C21 (as stated): a string of digits with one period, no comma and exactly
\* three digits after the period is read as the integer made of all its
\* digits: the period separates thousands.
C21_PeriodBeforeThreeDigits ==
  (/\ input.fn = "num" /\ output # NoInput
   /\ Len(input.s) >= 5 /\ input.s[Len(input.s) - 3] = "."
   /\ \A k \in 1..Len(input.s) : k # Len(input.s) - 3 => IsDigit(input.s[k])) =>
    output.value = Number(SelectSeq(input.s, IsDigit), << >>)

\* C22 (as stated): when the function returns a number for a string, it
\* returns the same number for the string form of that number.
C22_NormalizeIdempotent ==
  (input.fn = "num" /\ output # NoInput /\ ~output.value.nan) =>
    output.again = output.value

\* C23 (as stated): getMetrics reports as activeJobs the number of jobs in
\* processing and as workerCount the number of running worker loops: the
\* configured concurrency between start() and stop(), zero once stop()
\* has returned.
C23_MetricsCountJobsAndLoops ==
  /\ GetMetrics.activeJobs = Cardinality(processingJobs)
  /\ (isRunning /\ stopPc = "idle") => GetMetrics.workerCount = concurrency
  /\ stopPc = "returned" => GetMetrics.workerCount = 0

\* C24 (as stated): the process exits on a signal only after
\* queueManager.stop() has returned.
C24_ExitOnlyAfterStopReturned ==
  exitCode # "running" => stopPc = "returned"

\* C25 (as stated): a message is never in processing by two workers at once.
C25_OneWorkerPerJob ==
  \A w1, w2 \in WorkerIds :
    (w1 # w2 /\ InPass(w1) /\ InPass(w2)) => job[w1].msg # job[w2].msg

\* C26: within one pass the progress of a status call with status processing
\* is never less than the progress of the call before it, and a call
\* reports 100 only with status complete.
C26_ProgressNeverDecreases ==
  [][\A w \in WorkerIds :
       /\ (emitted'[w] # emitted[w] /\ emitted'[w].status = "processing") =>
            (emitted[w].status \in {"none", "processing"}
             /\ emitted'[w].progress >= emitted[w].progress)
       /\ emitted'[w].progress = 100 => emitted'[w].status = "complete"]_vars

\* C26 witness: a pass has made its last call, complete with 100, and the
\* document is complete.
C26_Witness ==
  \E w \in WorkerIds :
    /\ pc[w] = "ack"
    /\ emitted[w] = [status |-> "complete", progress |-> 100]
    /\ docs[TableOf(job[w].vertical)].status = "complete"

\* C27 (as stated): the structured portion of a combined response is kept
\* exactly when it has a vendor, an amount or a line item.
C27_SparseMeansNoVendorAmountItems ==
  (input.fn = "quality" /\ output # NoInput) =>
    (output.kept <=> (input.d.vendor \/ input.d.amount \/ input.d.lineItems))

\* C28 (as stated): whichever AI call it is, a 4xx failure ends it after one
\* attempt, 5xx failures are followed by further attempts until one answers,
\* and after three 5xx failures the last error is surfaced.
C28_EveryCallRetries5xx ==
  (input.fn = "call" /\ output # NoInput) =>
    /\ input.script[1] = "e400" => output = [attempts |-> 1, result |-> "e400"]
    /\ (\A j \in 1..Retries : input.script[j] = "e500") =>
         output = [attempts |-> Retries, result |-> "e500"]
    /\ \A k \in 1..Retries :
         ((\A j \in 1..(k - 1) : input.script[j] = "e500") /\ input.script[k] = "ok") =>
           output = [attempts |-> k, result |-> "ok"]

\* C29 (as stated): whichever AI call it is, when the service never responds
\* the caller receives a timeout error.
C29_EveryCallTimesOut ==
  (input.fn = "call" /\ output # NoInput /\ input.script[1] = "hang") =>
    output.result = "timeout"

\* C30 (as stated): an attempt that times out is followed by a further
\* attempt, as after a 5xx failure: when the second attempt would answer, the
\* call succeeds at its second attempt.
C30_TimeoutIsRetried ==
  (/\ input.fn = "call" /\ output # NoInput /\ input.call = "structured"
   /\ input.script[1] = "hang" /\ input.script[2] = "ok") =>
    output = [attempts |-> 2, result |-> "ok"]

\* C32 (as stated): for a text longer than the window size the windows of
\* chunkText begin at 0, each next one begins overlap units before the end
\* of the one before it, none is longer than the window size and the last
\* one ends at the end of the text.
C32_WindowsOverlapExactly ==
  (input.fn = "chunk" /\ output # NoInput /\ output.done /\ Units(input) > input.chunkSize) =>
    LET c == output.chunks
    IN /\ Len(c) > 0
       /\ c[1].start = 0
       /\ c[Len(c)].end = Units(input)
       /\ \A j \in 1..Len(c) : c[j].end - c[j].start <= input.chunkSize
       /\ \A j \in 1..(Len(c) - 1) : c[j + 1].start = c[j].end - input.chunkOverlap

\* C40: with chunkSize >= 1 and 0 <= chunkOverlap < chunkSize, chunkText
\* returns for every text; each iteration moves the window start forward,
\* and there are never more than ceil(length / (chunkSize - chunkOverlap)) + 1
\* windows.
C40_ChunkTextTerminates ==
  /\ [][(input.fn = "chunk" /\ output # NoInput /\ ~output'.done) =>
          output'.start > output.start]_vars
  /\ []((input.fn = "chunk" /\ output # NoInput) =>
          (/\ \A j \in 1..(Len(output.chunks) - 1) :
                output.chunks[j + 1].start > output.chunks[j].start
           /\ LET step == input.chunkSize - input.chunkOverlap
              IN Len(output.chunks) <= (Units(input) + step - 1) \div step + 1))
  /\ <>(input.fn = "chunk" /\ output # NoInput /\ output.done)

\* C40 witness: chunkText has returned more than two windows for a text with
\* a window size above 1 and an overlap.
C40_Witness ==
  /\ input.fn = "chunk" /\ output # NoInput /\ output.done
  /\ input.chunkSize > 1 /\ input.chunkOverlap > 0
  /\ Len(output.chunks) > 2

\* C34 (as stated): the message of a job whose tenant exists is deleted only
\* by the acknowledgement after processDocument has returned.
C34_KnownTenantNeverDropped ==
  [][\A m \in MsgIds :
       (queue[m].org = "known" /\ queue[m].state # "deleted" /\ queue'[m].state = "deleted") =>
         \E w \in WorkerIds : job[w].msg = m /\ pc[w] = "ack"]_vars

\* C35 (as stated): while processingJobs is empty no worker is inside
\* processDocument.
C35_EmptySetMeansNoPass ==
  processingJobs = {} => \A w \in WorkerIds : ~InPass(w)

\* C36 (as stated): once stop() has returned before its ceiling, no worker is
\* inside processDocument, then or later.
C36_NoPassAfterStopReturned ==
  (stopPc = "returned" /\ stopWaited < MaxStopSleeps) => \A w \in WorkerIds : ~InPass(w)

\* The rows of the first sequence all occur in the second.
AllStored(rows, table) ==
  \A i \in 1..Len(rows) : \E j \in 1..Len(table) : table[j] = rows[i]

C39_LegalJobTouchesLegalTable ==
  [][\A w \in WorkerIds :
       (job[w].vertical = "legal" /\ InPass(w) /\ pc'[w] # pc[w]) =>
         /\ docs'["documents"] = docs["documents"]
         /\ docs["legal_documents"].status # "absent" =>
              /\ pc[w] = "emit10" => docs'["legal_documents"].status = "processing"
              /\ pc[w] = "update" => docs'["legal_documents"].data
              /\ pc'[w] = "ack" => docs'["legal_documents"].status = "complete"
              /\ pc'[w] = "threw" => docs'["legal_documents"].status = "failed"]_vars

\* C39 witness: a pass for a legal job has returned, the legal record is
\* complete and the documents table has no record of it.
C39_Witness ==
  \E w \in WorkerIds :
    /\ pc[w] = "ack" /\ job[w].vertical = "legal"
    /\ docs["legal_documents"].status = "complete"
    /\ docs["legal_documents"].data
    /\ docs["documents"] = AbsentDoc

\* C31 (as stated): at no time during the chunked embedding generation are
\* more than 10 embedding requests in flight.
C31_AtMostTenInFlight ==
  (input.fn = "batches" /\ output # NoInput) =>
    \A b \in 1..Len(output.inFlight) : output.inFlight[b] <= MAX_CONCURRENT

\* C33 (as stated): for a text shorter than the small-document threshold
\* exactly one embedding request is made, and otherwise one per window.
C33_OneRequestBelowThreshold ==
  (input.fn = "requests" /\ output # NoInput /\ input.textLength > 0) =>
    output.requests = IF input.textLength < SMALL_DOC_THRESHOLD THEN 1
                      ELSE WindowCount(input.textLength, CHUNK_SIZE, CHUNK_OVERLAP)

\* C38 (as stated): when the caller of the structured extraction call got
\* the timeout error, every attempt of the call was issued before the
\* timeout fired.
C38_NoAttemptAfterTimeout ==
  (input.fn = "timed" /\ output # NoInput /\ output.result = "timeout") =>
    \A k \in 1..Len(output.issued) : output.issued[k] < AiTimeoutSeconds

====
